---------------------------- MODULE Spec2Model ----------------------------
(***************************************************************************)
(* Verification model of M3 (rafiattrach/m3): the pipeline life cycle      *)
(* (m3/m3.py), the MIMIC tool's actions and SQL validator                  *)
(* (m3/tools/mimic/mimic.py, m3/mcp_server.py) and the OAuth2 middleware   *)
(* (m3/tools/mimic/components/auth.py).                                    *)
(***************************************************************************)
EXTENDS Integers, Sequences, FiniteSets, TLC

(***************************************************************************)
(* Bounds of the model.                                                    *)
(***************************************************************************)
\* longest SQL text, in lexemes, given to the validator
MaxLen == 4

\* pipeline objects the builder calls may create, beside the first M3()
MaxPipes == 2

\* last instant of the clock
MaxTime == 3

\* Auth._set_rate_limit and Auth._set_cache, scaled down: validations admitted
\* per window, the window and the life of the cached JWKS, in clock units
rate_limit_requests == 2

rate_limit_window == 2

jwks_cache_ttl == 3

\* the most entries of the list of discovered files
MaxFiles == 4

\* the number of CSV shards to convert
MaxShards == 3

\* files under the Parquet root at a registration
MaxViews == 2

\* BigQuery clients constructed in one run
MaxClients == 3

\* M3_CONVERT_MAX_WORKERS (4 by default), scaled down
max_workers == 2

(***************************************************************************)
(* SQL text.  A query is a sequence of lexemes: words (keywords and        *)
(* identifiers, already upper-cased as by str.upper()) and separators.     *)
(* Two words are never adjacent: without a separator between them they     *)
(* would be one word.                                                      *)
(*   "X"        an ordinary identifier                                     *)
(*   "KEY"      an identifier holding a suspicious name                    *)
(*   "1=1"      text holding an injection signature                        *)
(*   "UPDATE"   a deny-listed keyword sqlparse tags as DML                 *)
(*   "EXEC"     a deny-listed keyword sqlparse tags as plain Keyword       *)
(*   "DESCRIBE" a keyword sqlparse tags as plain Keyword                   *)
(***************************************************************************)
Words == {"SELECT", "PRAGMA", "DESCRIBE", "UPDATE", "EXEC", "X", "KEY", "1=1"}

Whitespace == {" ", "\n"}

Seps == Whitespace \cup {";", "(", ")"}

Lexemes == Words \cup Seps

WellFormed(q) ==
    \A i \in 1..(Len(q) - 1) : ~(q[i] \in Words /\ q[i + 1] \in Words)

Queries ==
    UNION {{q \in [1..n -> Lexemes] : WellFormed(q)} : n \in 0..MaxLen}

\* str.strip(): drop leading and trailing whitespace
RECURSIVE lstrip(_)
lstrip(q) ==
    IF q # <<>> /\ Head(q) \in Whitespace THEN lstrip(Tail(q)) ELSE q

RECURSIVE rstrip(_)
rstrip(q) ==
    IF q # <<>> /\ q[Len(q)] \in Whitespace
    THEN rstrip(SubSeq(q, 1, Len(q) - 1))
    ELSE q

strip(q) == rstrip(lstrip(q))

\* sqlparse's StatementSplitter: a ";" at parenthesis level <= 0 ends the
\* statement, trailing blanks stay with it, the next other token starts the
\* next statement; a pending statement of whitespace only is dropped.
RECURSIVE split(_, _, _, _, _)
split(rest, level, consume_ws, cur, out) ==
    IF rest = <<>>
    THEN IF cur # <<>> /\ ~(\A i \in 1..Len(cur) : cur[i] \in Whitespace)
         THEN Append(out, cur)
         ELSE out
    ELSE LET t == Head(rest)
             flush == consume_ws /\ t # " "
             out1 == IF flush THEN Append(out, cur) ELSE out
             cur1 == IF flush THEN <<>> ELSE cur
             lvl0 == IF flush THEN 0 ELSE level
             cws0 == IF flush THEN FALSE ELSE consume_ws
             lvl1 == lvl0 + (IF t = "(" THEN 1 ELSE IF t = ")" THEN -1 ELSE 0)
             cws1 == cws0 \/ (lvl1 <= 0 /\ t = ";")
         IN  split(Tail(rest), lvl1, cws1, Append(cur1, t), out1)

parse(q) == split(q, 0, FALSE, <<>>, <<>>)

\* sqlparse Statement.get_type(): the first token that is not whitespace,
\* if it is a DML/DDL keyword, else UNKNOWN (a parenthesis group, an
\* identifier, punctuation and plain keywords are all UNKNOWN).
get_type(statement) ==
    LET s == lstrip(statement)
    IN  IF s = <<>> THEN "UNKNOWN"
        ELSE IF Head(s) \in {"SELECT", "UPDATE"} THEN Head(s)
        ELSE "UNKNOWN"

startswith(q, w) == q # <<>> /\ Head(q) = w

\* substring test  name.upper() in sql_upper  on a name that is one lexeme
contains(q, w) == \E i \in 1..Len(q) : q[i] = w

\* f" {keyword} " in f" {sql_upper} ": the keyword as a whole word with one
\* blank (or the end of the text) on each side
padded_contains(q, keyword) ==
    \E i \in 1..Len(q) :
        /\ q[i] = keyword
        /\ (i = 1 \/ q[i - 1] = " ")
        /\ (i = Len(q) \/ q[i + 1] = " ")

\* the deny-lists (of the full lists, the entries the lexemes can spell)
dangerous_keywords == {"UPDATE", "EXEC"}

injection_patterns == {"1=1"}

suspicious_names == {"KEY"}

\* MIMIC._is_safe_query with the statement-type test moved ahead of the
\* multi-statement guard
is_safe_query_type_first(sql_query) ==
    LET stripped == strip(sql_query)
        parsed == parse(stripped)
    IN  IF stripped = <<>> THEN <<FALSE, "Empty query">>
        ELSE IF parsed = <<>> THEN <<FALSE, "Invalid SQL syntax">>
        ELSE IF get_type(parsed[1]) \notin {"SELECT", "UNKNOWN"}
             THEN <<FALSE, "Only SELECT and PRAGMA queries allowed">>
        ELSE IF Len(parsed) > 1 THEN <<FALSE, "Multiple statements not allowed">>
        ELSE IF startswith(stripped, "PRAGMA")
             THEN <<TRUE, "Safe PRAGMA statement">>
        ELSE IF \E k \in dangerous_keywords : padded_contains(stripped, k)
             THEN <<FALSE, "Write operation not allowed">>
        ELSE <<TRUE, "Safe">>

\* MIMIC._is_safe_query taking any ";" in the text for a second statement
is_safe_query_no_semicolon(sql_query) ==
    LET stripped == strip(sql_query)
        parsed == parse(stripped)
    IN  IF stripped = <<>> THEN <<FALSE, "Empty query">>
        ELSE IF parsed = <<>> THEN <<FALSE, "Invalid SQL syntax">>
        ELSE IF Len(parsed) > 1 \/ contains(stripped, ";")
             THEN <<FALSE, "Multiple statements not allowed">>
        ELSE IF get_type(parsed[1]) \notin {"SELECT", "UNKNOWN"}
             THEN <<FALSE, "Only SELECT and PRAGMA queries allowed">>
        ELSE IF startswith(stripped, "PRAGMA")
             THEN <<TRUE, "Safe PRAGMA statement">>
        ELSE IF \E k \in dangerous_keywords : padded_contains(stripped, k)
             THEN <<FALSE, "Write operation not allowed">>
        ELSE IF \E p \in injection_patterns : contains(stripped, p)
             THEN <<FALSE, "Injection pattern detected">>
        ELSE IF \E n \in suspicious_names : contains(stripped, n)
             THEN <<FALSE, "Suspicious identifier detected">>
        ELSE <<TRUE, "Safe">>

\* MIMIC._is_safe_query
is_safe_query(sql_query) ==
    LET stripped == strip(sql_query)
        parsed == parse(stripped)
    IN  IF stripped = <<>> THEN <<FALSE, "Empty query">>
        ELSE IF parsed = <<>> THEN <<FALSE, "Invalid SQL syntax">>
        ELSE IF Len(parsed) > 1 THEN <<FALSE, "Multiple statements not allowed">>
        ELSE IF get_type(parsed[1]) \notin {"SELECT", "UNKNOWN"}
             THEN <<FALSE, "Only SELECT and PRAGMA queries allowed">>
        ELSE IF startswith(stripped, "PRAGMA")
             THEN <<TRUE, "Safe PRAGMA statement">>
        ELSE IF \E k \in dangerous_keywords : padded_contains(stripped, k)
             THEN <<FALSE, "Write operation not allowed">>
        ELSE IF \E p \in injection_patterns : contains(stripped, p)
             THEN <<FALSE, "Injection pattern detected">>
        ELSE IF \E n \in suspicious_names : contains(stripped, n)
             THEN <<FALSE, "Suspicious identifier detected">>
        ELSE <<TRUE, "Safe">>

\* m3.mcp_server._is_safe_query: the deny-lists are searched for SELECT only
server_is_safe_query(sql_query) ==
    LET stripped == strip(sql_query)
        parsed == parse(stripped)
    IN  IF stripped = <<>> THEN <<FALSE, "Empty query">>
        ELSE IF parsed = <<>> THEN <<FALSE, "Invalid SQL syntax">>
        ELSE IF Len(parsed) > 1 THEN <<FALSE, "Multiple statements not allowed">>
        ELSE IF get_type(parsed[1]) \notin {"SELECT", "UNKNOWN"}
             THEN <<FALSE, "Only SELECT and PRAGMA queries allowed">>
        ELSE IF startswith(stripped, "PRAGMA")
             THEN <<TRUE, "Safe PRAGMA statement">>
        ELSE IF get_type(parsed[1]) = "SELECT"
                /\ \E k \in dangerous_keywords : padded_contains(stripped, k)
             THEN <<FALSE, "Write operation not allowed">>
        ELSE IF get_type(parsed[1]) = "SELECT"
                /\ \E p \in injection_patterns : contains(stripped, p)
             THEN <<FALSE, "Injection pattern detected">>
        ELSE IF get_type(parsed[1]) = "SELECT"
                /\ \E n \in suspicious_names : contains(stripped, n)
             THEN <<FALSE, "Suspicious identifier detected">>
        ELSE <<TRUE, "Safe">>


(***************************************************************************)
(* State.                                                                  *)
(***************************************************************************)
VARIABLES
    \* the validator and the raw-query action on one SQL text
    sql_query,       \* the text handed to the validator / the action
    pcq,             \* "new", "validated" or "executed"
    verdict,         \* what MIMIC._is_safe_query returned
    server_verdict,  \* what mcp_server._is_safe_query returned
    result,          \* what execute_mimic_query returned
    executed,        \* the queries the backend was given, in order
    data,            \* the backend's data: the number of writes applied
    \* the pipeline life cycle
    pipes,           \* pipeline object -> its fields (M3.__init__)
    connection,      \* tool -> backend key -> whether a connection is open
    registered,      \* MCP server -> the tools whose actions are bound on it
    serving,         \* the pipeline whose run() is inside the server loop, or 0
    file,            \* the JSON save() last wrote (by = 0: no file yet)
    op,              \* the last call: its name, pipeline and outcome
    completed,       \* the pipelines on which a build() call has returned
    \* the OAuth2 middleware and the registered actions
    now,              \* time.time()
    jwks_cache,       \* Auth._jwks_cache: the kids of the cached document
    jwks_cache_time,  \* Auth._jwks_cache_time
    rate_limit_cache, \* Auth._rate_limit_cache: subject -> times admitted
    admits,           \* history: subject -> times admitted inside the window
    last,             \* the last call of authenticate and what it met
    enabled,          \* Auth.enabled
    env_token,        \* the value of M3_OAUTH2_TOKEN
    call,             \* the last invocation of a registered action
    \* invocations inside Auth._check_rate_limit at the same time
    rl_pc,            \* invocation -> the statement it is at
    rl_local,         \* invocation -> its user_id, current_time, user_requests
    \* the objects M3.load makes, and the handles nothing refers to any more
    loaded_config,    \* the values of the M3Config that load() made
    loaded_fields,    \* the fields of the tool objects that load() made, in order
    leaked,           \* whether a handle that was overwritten is still open
    \* one backend object of each kind, called directly
    b_handle,         \* backend -> whether self.connection / self.client is set
    b_life,           \* history: backend -> where it is in its life cycle
    b_stale,          \* backend -> whether a handle it dropped is still open
    b_op,             \* the last call on a backend and how it ended
    \* the download stage of DataIO
    all_files_to_process,    \* the (url, target path) pairs as discovered
    unique_files_to_process, \* the list the loop walks
    next_file,               \* the position of the loop in that list
    requested,               \* history: the files requested, in order
    written,                 \* history: the files whose download wrote its file
    failed,                  \* history: whether a download has failed
    disk,                    \* target path -> what is at that path
    stage,                   \* "discovered", "running", "true" or "false"
    \* the CSV to Parquet conversion of m3/data_io.py
    futures,          \* shard -> "pending", "running", "done", "failed", "cancelled"
    yielded,          \* the futures as_completed has handed to the loop
    parquet_paths,    \* the shards whose output path the loop has collected
    converting,       \* the caller: "collecting", "shutdown", "true" or "false"
    \* one M3Config object and the process environment
    env_vars,         \* M3Config.env_vars: key -> value, or None
    environ,          \* os.environ: key -> value, or None
    cfg_op,           \* the last call on the config and how it ended
    \* one ingest of a dataset and the database it registers views in
    i_entry,          \* the function called: "initialize" or "build"
    i_started,        \* the stages started, in order
    i_reports,        \* what the stages that ended reported, in order
    i_result,         \* what the ingest returned, or "raised"
    parquet_files,    \* the files rglob found, in the order it gave them
    next_view,        \* index of the file the view loop is at
    created,          \* the loop's counter of views created
    views,            \* the views of the database: name and file read
    \* the server module's backend and its BigQuery client
    bq_backend,       \* mcp_server._backend
    env_project,      \* os.environ["M3_PROJECT_ID"], or None
    ds_project,       \* bigquery_project_id of the active dataset, or None
    bq_client_cache,  \* mcp_server._bq_client_cache
    bq_made,          \* how many times bigquery.Client(...) was constructed
    bq_op             \* the last call and what it returned

qvars == <<sql_query, pcq, verdict, server_verdict, result, executed, data>>

pvars == <<pipes, connection, registered, serving, file, op, completed>>

avars == <<now, jwks_cache, jwks_cache_time, rate_limit_cache, admits, last,
           enabled, env_token, call>>

cvars == <<rl_pc, rl_local>>

lvars == <<loaded_config, loaded_fields, leaked>>

bvars == <<b_handle, b_life, b_stale, b_op>>

dvars == <<all_files_to_process, unique_files_to_process, next_file,
           requested, written, failed, disk, stage>>

kvars == <<futures, yielded, parquet_paths, converting>>

gvars == <<env_vars, environ, cfg_op>>

wvars == <<i_entry, i_started, i_reports, i_result, parquet_files, next_view,
          created, views>>

xvars == <<bq_backend, env_project, ds_project, bq_client_cache, bq_made, bq_op>>

nvars == <<gvars, wvars, xvars>>

\* the groups of the other components, for the actions of a component
\* declared after them
uvars == <<cvars, lvars, bvars, dvars, kvars>>

evars == <<uvars, nvars>>

vars == <<qvars, pvars, avars, evars>>

NoVerdict == <<FALSE, "none">>

NoResult == [kind |-> "none", message |-> "none", hint |-> "none"]

(***************************************************************************)
(* The backend.  execute(sql) runs the text: a statement of a writing      *)
(* type changes the data; the call then returns rows, returns "No results  *)
(* found" or raises.                                                       *)
(***************************************************************************)
BackendOutcomes == {"rows", "No results found", "raise"}

is_write(q) ==
    \E i \in 1..Len(parse(strip(q))) : get_type(parse(strip(q))[i]) = "UPDATE"

backend_data_after(d, q) == IF is_write(q) THEN d + 1 ELSE d

\* execute_mimic_query with the validator's answer ignored
execute_mimic_query_unchecked(q, outcome) ==
    [result   |-> IF outcome = "raise"
                  THEN [kind |-> "Query Failed", message |-> "backend error",
                        hint |-> "recovery steps"]
                  ELSE [kind |-> "result", message |-> outcome, hint |-> "none"],
     executed |-> <<q>>]

\* MIMIC.actions.execute_mimic_query: the text result and the queries handed
\* to the backend, given how the backend answers
execute_mimic_query(q, outcome) ==
    LET safe == is_safe_query(q)
    IN  IF ~safe[1]
        THEN [result   |-> [kind    |-> "Security Error",
                            message |-> safe[2],
                            hint    |-> IF contains(q, "DESCRIBE")
                                        THEN "get_table_info" ELSE "tip"],
              executed |-> <<>>]
        ELSE [result   |-> IF outcome = "raise"
                           THEN [kind |-> "Query Failed", message |-> "backend error",
                                 hint |-> "recovery steps"]
                           ELSE [kind |-> "result", message |-> outcome, hint |-> "none"],
              executed |-> <<q>>]

\* substring tests on the text of a result
has_security_error(r) == r.kind = "Security Error"

has_only_select(r) ==
    /\ r.kind = "Security Error"
    /\ \/ r.message = "Only SELECT and PRAGMA queries allowed"
       \/ r.hint = "tip"

(***************************************************************************)
(* The OAuth2 middleware (m3/tools/mimic/components/auth.py).  Time is an  *)
(* integer clock.  A token is a record of its header and claims; the key   *)
(* that signed it stands for its signature.                                *)
(***************************************************************************)
Times == 0..MaxTime

Subjects == {"alice", "bob"}

\* the keys of the identity provider's JWKS document, by kid, and their kty
jwks_document == {"k1", "k2"}

kty(kid) == IF kid = "k1" THEN "RSA" ELSE "EC"

\* Auth._set_issuer_and_audience, Auth._set_required_scopes
audience == "m3-api"

issuer_url == "https://issuer"

required_scopes == {"read", "write"}

\* a token every check accepts until it expires
GoodToken(sub) ==
    [kid |-> "k1", signer |-> "k1", exp |-> MaxTime + 1, nbf |-> 0,
     aud |-> audience, iss |-> issuer_url,
     scope |-> {"read", "write"}, scp |-> {}, sub |-> sub]

\* the tokens presented: the good token and the tokens that differ from it
\* in one respect
Tokens ==
    {GoodToken(s) : s \in Subjects}
    \cup {[GoodToken("alice") EXCEPT !.kid = k] : k \in {"none", "k3"}}
    \cup {[GoodToken("alice") EXCEPT !.kid = "k2", !.signer = "k2"]}
    \cup {[GoodToken("alice") EXCEPT !.signer = "forged"]}
    \cup {[GoodToken("alice") EXCEPT !.exp = 1]}
    \cup {[GoodToken("alice") EXCEPT !.nbf = 1]}
    \cup {[GoodToken("alice") EXCEPT !.aud = "other-api"]}
    \cup {[GoodToken("alice") EXCEPT !.iss = "https://other"]}
    \cup {[GoodToken("alice") EXCEPT !.scope = sc[1], !.scp = sc[2]] :
            sc \in {<<{"read"}, {"write"}>>, <<{"read"}, {}>>, <<{}, {"write"}>>}}

\* Auth._get_jwks with the age of the cached document never looked at
get_jwks_any_age(cache, cache_time, current_time, fetch) ==
    IF cache # {}
    THEN [raised |-> FALSE, jwks |-> cache, cache |-> cache,
          cache_time |-> cache_time, fetched |-> FALSE]
    ELSE IF fetch = "fail"
    THEN [raised |-> TRUE, jwks |-> {}, cache |-> cache,
          cache_time |-> cache_time, fetched |-> TRUE]
    ELSE [raised |-> FALSE, jwks |-> jwks_document, cache |-> jwks_document,
          cache_time |-> current_time, fetched |-> TRUE]

\* Auth._get_jwks: the document used, the cache afterwards, whether the
\* provider was asked; fetch is the provider's answer, "fail" when the
\* request raises
get_jwks(cache, cache_time, current_time, fetch) ==
    IF cache # {} /\ current_time - cache_time < jwks_cache_ttl
    THEN [raised |-> FALSE, jwks |-> cache, cache |-> cache,
          cache_time |-> cache_time, fetched |-> FALSE]
    ELSE IF fetch = "fail"
    THEN [raised |-> TRUE, jwks |-> {}, cache |-> cache,
          cache_time |-> cache_time, fetched |-> TRUE]
    ELSE [raised |-> FALSE, jwks |-> jwks_document, cache |-> jwks_document,
          cache_time |-> current_time, fetched |-> TRUE]

\* Auth._find_key
find_key(jwks, kid) == kid \in jwks

\* Auth._jwk_to_pem raises for every key type but RSA
jwk_to_pem(kid) == kty(kid) = "RSA"

\* jwt.decode(token, public_key, algorithms, audience, issuer): the error
\* raised, or "ok"
jwt_decode(token, kid, current_time) ==
    IF token.signer # kid THEN "InvalidSignatureError"
    ELSE IF token.nbf > current_time THEN "ImmatureSignatureError"
    ELSE IF token.exp <= current_time THEN "ExpiredSignatureError"
    ELSE IF token.iss # issuer_url THEN "InvalidIssuerError"
    ELSE IF token.aud # audience THEN "InvalidAudienceError"
    ELSE "ok"

\* Auth._validate_scopes with the scp claim left out
validate_scopes_scope_claim_only(payload) == required_scopes \subseteq payload.scope

\* Auth._validate_scopes: TRUE when no required scope is missing
validate_scopes(payload) ==
    LET token_scopes == payload.scope \cup payload.scp
    IN  required_scopes \ token_scopes = {}

RECURSIVE SelectAfter(_, _)
\* [t for t in user_requests if t > window_start]
SelectAfter(user_requests, window_start) ==
    IF user_requests = <<>> THEN <<>>
    ELSE IF Head(user_requests) > window_start
         THEN <<Head(user_requests)>> \o SelectAfter(Tail(user_requests), window_start)
         ELSE SelectAfter(Tail(user_requests), window_start)

\* Auth._check_rate_limit with the comparison off by one
check_rate_limit_over(cache, user_id, current_time) ==
    LET window_start == current_time - rate_limit_window
        user_requests == SelectAfter(cache[user_id], window_start)
    IN  IF Len(user_requests) > rate_limit_requests
        THEN [raised |-> TRUE, cache |-> cache]
        ELSE [raised |-> FALSE,
              cache |-> [cache EXCEPT ![user_id] = Append(user_requests, current_time)]]

\* _check_rate_limit storing the request's time before it tests the limit
check_rate_limit_record_first(cache, user_id, current_time) ==
    LET window_start == current_time - rate_limit_window
        user_requests == SelectAfter(cache[user_id], window_start)
        stored == [cache EXCEPT ![user_id] = Append(user_requests, current_time)]
    IN  IF Len(user_requests) >= rate_limit_requests
        THEN [raised |-> TRUE, cache |-> stored]
        ELSE [raised |-> FALSE, cache |-> stored]

\* Auth._check_rate_limit
check_rate_limit(cache, user_id, current_time) ==
    LET window_start == current_time - rate_limit_window
        user_requests == SelectAfter(cache[user_id], window_start)
    IN  IF Len(user_requests) >= rate_limit_requests
        THEN [raised |-> TRUE, cache |-> cache]
        ELSE [raised |-> FALSE,
              cache |-> [cache EXCEPT ![user_id] = Append(user_requests, current_time)]]

AuthRaise(err, j, rl) ==
    [ok |-> FALSE, err |-> err, jwks_cache |-> j.cache,
     jwks_cache_time |-> j.cache_time, fetched |-> j.fetched,
     rate_limit_cache |-> rl]

\* the text of a token: what precedes the JWT in the string and the JWT, <<>>
\* when the string holds none
TokenText(token) == [prefix |-> "", jwt |-> <<token>>]

\* Auth.authenticate: whether it returned the payload, the error it raised
\* otherwise, and the caches afterwards
authenticate(text, current_time, fetch, cache, cache_time, rl) ==
    LET j == get_jwks(cache, cache_time, current_time, fetch)
        token == text.jwt[1]
    IN  IF j.raised THEN AuthRaise("JWKS request failed", j, rl)
        ELSE IF text.prefix # "" \/ text.jwt = <<>> THEN AuthRaise("DecodeError", j, rl)
        ELSE IF token.kid = "none" THEN AuthRaise("Token missing key ID (kid)", j, rl)
        ELSE IF ~find_key(j.jwks, token.kid) THEN AuthRaise("No key found for kid", j, rl)
        ELSE IF ~jwk_to_pem(token.kid) THEN AuthRaise("Unsupported key type", j, rl)
        ELSE IF jwt_decode(token, token.kid, current_time) # "ok"
             THEN AuthRaise(jwt_decode(token, token.kid, current_time), j, rl)
        ELSE IF ~validate_scopes(token) THEN AuthRaise("Missing required scopes", j, rl)
        ELSE LET r == check_rate_limit(rl, token.sub, current_time)
             IN  IF r.raised THEN AuthRaise("Rate limit exceeded", j, r.cache)
                 ELSE [ok |-> TRUE, err |-> "none", jwks_cache |-> j.cache,
                       jwks_cache_time |-> j.cache_time, fetched |-> j.fetched,
                       rate_limit_cache |-> r.cache]

(***************************************************************************)
(* The registered actions (MIMIC.actions) and the wrapper Auth.decorator   *)
(* puts around each of them.                                               *)
(***************************************************************************)
Actions == {"get_database_schema", "get_table_info", "execute_mimic_query",
            "get_icu_stays", "get_lab_results", "get_race_distribution"}

\* the raw queries given to execute_mimic_query through the server
ServeQueries == {<<"SELECT", " ", "X">>, <<"UPDATE", " ", "X">>}

\* the value of M3_OAUTH2_TOKEN: what precedes the JWT and the JWT, <<>> when
\* there is none; the variable unset reads as the empty string
NoEnvToken == [prefix |-> "", jwt |-> <<>>]

EnvTokens ==
    [prefix : {"", "Bearer ", "bearer "},
     jwt : {<<>>, <<GoodToken("alice")>>,
            <<[GoodToken("alice") EXCEPT !.aud = "other-api"]>>}]

\* wrapper: token[7:] when the value starts with "Bearer "
bearer_stripped(env) ==
    IF env.prefix = "Bearer " THEN [env EXCEPT !.prefix = ""] ELSE env

\* not token
is_empty(text) == text.prefix = "" /\ text.jwt = <<>>

\* the body of an action: whether it raised, the text it returned, and the
\* number of calls it made to the backend
action_body(action, limit_ok, q, outcome) ==
    CASE action = "get_database_schema" ->
           IF outcome = "raise"
           THEN [raised |-> TRUE, text |-> "M3ValidationError", backend_calls |-> 1]
           ELSE [raised |-> FALSE, text |-> "Available Tables", backend_calls |-> 1]
      [] action = "get_table_info" ->
           IF outcome = "raise"
           THEN [raised |-> FALSE, text |-> "Error examining table", backend_calls |-> 1]
           ELSE [raised |-> FALSE, text |-> "Table", backend_calls |-> 2]
      [] action = "execute_mimic_query" ->
           LET r == execute_mimic_query(q, outcome)
           IN  [raised |-> FALSE, text |-> r.result.kind,
                backend_calls |-> Len(r.executed)]
      [] OTHER ->
           IF ~limit_ok
           THEN [raised |-> FALSE, text |-> "Error: Invalid limit", backend_calls |-> 0]
           ELSE IF outcome = "raise"
           THEN [raised |-> TRUE, text |-> "M3ValidationError", backend_calls |-> 1]
           ELSE [raised |-> FALSE, text |-> outcome, backend_calls |-> 1]

NoAuth(cache, cache_time, rl) ==
    [ok |-> FALSE, err |-> "none", jwks_cache |-> cache,
     jwks_cache_time |-> cache_time, fetched |-> FALSE, rate_limit_cache |-> rl]

Wrapped(action, tokenless, auth, ran, b) ==
    [action |-> action, tokenless |-> tokenless, authenticated |-> auth.ok,
     body |-> ran, raised |-> b.raised, text |-> b.text,
     backend_calls |-> b.backend_calls, auth |-> auth]

Raised(text) == [raised |-> TRUE, text |-> text, backend_calls |-> 0]

\* the wrapper with the token never looked at
decorator_unchecked(on, env, action, limit_ok, q, outcome, t, fetch, jc, jct, rl) ==
    Wrapped(action, is_empty(bearer_stripped(env)), NoAuth(jc, jct, rl),
            TRUE, action_body(action, limit_ok, q, outcome))

\* Auth.decorator's wrapper around an action (the bare action when the tool
\* has no Auth): what one invocation does
decorator(on, env, action, limit_ok, q, outcome, t, fetch, jc, jct, rl) ==
    IF ~on
    THEN Wrapped(action, is_empty(bearer_stripped(env)), NoAuth(jc, jct, rl),
                 TRUE, action_body(action, limit_ok, q, outcome))
    ELSE IF is_empty(bearer_stripped(env))
    THEN Wrapped(action, TRUE, NoAuth(jc, jct, rl), FALSE,
                 Raised("Missing OAuth2 access token"))
    ELSE LET a == authenticate(bearer_stripped(env), t, fetch,
                               jc, jct, rl)
         IN  IF ~a.ok
             THEN Wrapped(action, FALSE, a, FALSE, Raised(a.err))
             ELSE Wrapped(action, FALSE, a, TRUE,
                          action_body(action, limit_ok, q, outcome))

Fetches == {"fail", "document"}

NoLast ==
    [called |-> FALSE, token |-> GoodToken("alice"), time |-> 0, ok |-> FALSE,
     err |-> "none", fetched |-> FALSE, jwks |-> {}, recent |-> 0, cached |-> 0,
     cache_before |-> {}, cache_time_before |-> 0]

NoCall ==
    [action |-> "none", tokenless |-> FALSE, authenticated |-> FALSE,
     body |-> FALSE, raised |-> FALSE, text |-> "none", backend_calls |-> 0]

InitAuthVars ==
    /\ now = 0
    /\ jwks_cache = {}
    /\ jwks_cache_time = 0
    /\ rate_limit_cache = [s \in Subjects |-> <<>>]
    /\ admits = [s \in Subjects |-> <<>>]
    /\ last = NoLast
    /\ enabled = FALSE
    /\ env_token = NoEnvToken
    /\ call = NoCall

\* the invocations that may be inside _check_rate_limit together
Invocations == {"i1", "i2"}

NoLocal == [user_id |-> "alice", current_time |-> 0, user_requests |-> <<>>]

InitRateVars ==
    /\ rl_pc = [i \in Invocations |-> "idle"]
    /\ rl_local = [i \in Invocations |-> NoLocal]

(***************************************************************************)
(* The pipeline (m3/m3.py).  Pipeline objects are numbered; 1 is M3().     *)
(* The builder calls make new objects that share the tool objects and the  *)
(* MCP server of the object they were called on.                           *)
(***************************************************************************)
PipeIds == 1..MaxPipes

\* the tool objects the caller made; a pipeline holds a tool at most once
Tools == {"t1", "t2"}

\* the tool objects M3.load makes from a file, in the order of the file
LoadedOrder == <<"l1", "l2">>

LoadedTools == {LoadedOrder[i] : i \in 1..Len(LoadedOrder)}

ToolObjects == Tools \cup LoadedTools

\* MIMIC._set_backends keys a backend by its class name; dict order is the
\* order of the list
BackendOrder == <<"sqlite", "bigquery">>

BackendKeys == {BackendOrder[i] : i \in 1..Len(BackendOrder)}

Configs == {"default", "debug"}

\* M3Config.__init__: the values of the config objects the caller made;
\* "default" is M3Config()
ConfigValues(c) ==
    IF c = "debug"
    THEN [log_level |-> "DEBUG", env_vars |-> {<<"M3_OAUTH2_ENABLED", "true">>}]
    ELSE [log_level |-> "INFO", env_vars |-> {}]

\* the values of a config object; "loaded" is the one M3.load made
config_values(c) == IF c = "loaded" THEN loaded_config ELSE ConfigValues(c)

\* M3Config.to_dict
M3Config_to_dict(v) == [log_level |-> v.log_level, env_vars |-> v.env_vars]

\* M3Config.from_dict
M3Config_from_dict(d) == [log_level |-> d.log_level, env_vars |-> d.env_vars]

\* MIMIC.__init__ and the backends' __init__: the fields of the tool
\* objects the caller made.  Each has an embedded and a cloud backend; t1 is
\* given a config of its own, t2 is left with M3Config()
ToolFields(t) ==
    IF t = "t1"
    THEN [cls |-> "MIMIC", backend_key |-> "sqlite", config |-> "debug",
          backends |-> <<[cls |-> "SQLiteBackend", path |-> "a.db"],
                         [cls |-> "BigQueryBackend", project |-> "p1"]>>]
    ELSE [cls |-> "MIMIC", backend_key |-> "bigquery", config |-> "default",
          backends |-> <<[cls |-> "SQLiteBackend", path |-> "b.db"],
                         [cls |-> "BigQueryBackend", project |-> "p2"]>>]

LoadedIndex(t) == CHOOSE i \in 1..Len(LoadedOrder) : LoadedOrder[i] = t

\* the fields of a tool object
tool_fields(t) ==
    IF t \in Tools THEN ToolFields(t) ELSE loaded_fields[LoadedIndex(t)]

\* str.lower on the class names
class_name_lower(cls) ==
    CASE cls = "MIMIC" -> "mimic"
      [] cls = "SQLiteBackend" -> "sqlitebackend"
      [] cls = "BigQueryBackend" -> "bigquerybackend"

\* MIMIC._set_backends: the key of a backend is its lowered class name
\* without "backend"
backend_tag(cls) ==
    CASE class_name_lower(cls) = "sqlitebackend" -> "sqlite"
      [] class_name_lower(cls) = "bigquerybackend" -> "bigquery"

BACKEND_REGISTRY(tag) ==
    CASE tag = "sqlite" -> "SQLiteBackend"
      [] tag = "bigquery" -> "BigQueryBackend"

ALL_TOOLS(tag) == CASE tag = "mimic" -> "MIMIC"

\* SQLiteBackend.to_dict, BigQueryBackend.to_dict: the connection parameter
\* only
Backend_to_dict(b) ==
    IF b.cls = "SQLiteBackend" THEN [path |-> b.path]
    ELSE [project |-> b.project]

\* SQLiteBackend.from_dict, BigQueryBackend.from_dict
Backend_from_dict(cls, params) ==
    IF cls = "SQLiteBackend" THEN [cls |-> cls, path |-> params.path]
    ELSE [cls |-> cls, project |-> params.project]

\* MIMIC.to_dict: the active backend's key and the backends by key
MIMIC_to_dict(f) ==
    [backend_key |-> f.backend_key,
     backends |-> [i \in 1..Len(f.backends) |->
                     [type |-> backend_tag(f.backends[i].cls),
                      params |-> Backend_to_dict(f.backends[i])]]]

\* MIMIC.from_dict: the config argument is not passed, so the tool gets
\* M3Config()
MIMIC_from_dict(params) ==
    [cls |-> "MIMIC", backend_key |-> params.backend_key, config |-> "default",
     backends |-> [i \in 1..Len(params.backends) |->
                     Backend_from_dict(BACKEND_REGISTRY(params.backends[i].type),
                                       params.backends[i].params)]]

\* M3.__init__
NewM3(config, mcp) ==
    [alive |-> TRUE, config |-> config, tools |-> <<>>, mcp |-> mcp,
     built |-> FALSE]

Unborn == [alive |-> FALSE, config |-> "default", tools |-> <<>>, mcp |-> 0,
           built |-> FALSE]

NoOp == [name |-> "none", pipe |-> 0, outcome |-> "none"]

NoFile == [by |-> 0, config |-> [log_level |-> "INFO", env_vars |-> {}],
           tools |-> <<>>]

InitPipeVars ==
    /\ pipes = [p \in PipeIds |-> IF p = 1 THEN NewM3("default", 0) ELSE Unborn]
    /\ connection = [t \in ToolObjects |-> [b \in BackendKeys |-> FALSE]]
    /\ registered = [m \in PipeIds |-> {}]
    /\ serving = 0
    /\ file = NoFile
    /\ op = NoOp
    /\ completed = {}

Idle(p) == pipes[p].alive /\ serving = 0

Fresh(n) == ~pipes[n].alive /\ \A m \in PipeIds : ~pipes[m].alive => n <= m

NoRepeat(tools) ==
    \A i, j \in 1..Len(tools) : tools[i] = tools[j] => i = j

ToolsOf(p) == {pipes[p].tools[i] : i \in 1..Len(pipes[p].tools)}

\* M3.with_config
with_config(p, n, config) ==
    /\ Idle(p) /\ Fresh(n)
    /\ pipes' = [pipes EXCEPT ![n] =
                    [NewM3(config, pipes[p].mcp) EXCEPT !.tools = pipes[p].tools]]
    /\ op' = [name |-> "with_config", pipe |-> p, outcome |-> "returned"]
    /\ UNCHANGED <<connection, registered, serving, file, completed>>

\* M3.with_tool appending to the list of the pipeline it was called on and
\* handing the same list to the new pipeline
with_tool_in_place(p, n, tool) ==
    /\ Idle(p) /\ Fresh(n)
    /\ tool \notin ToolsOf(p)
    /\ pipes' = [pipes EXCEPT ![p].tools = Append(pipes[p].tools, tool),
                              ![n] = [NewM3(pipes[p].config, pipes[p].mcp)
                                         EXCEPT !.tools = Append(pipes[p].tools, tool)]]
    /\ op' = [name |-> "with_tool", pipe |-> p, outcome |-> "returned"]
    /\ UNCHANGED <<connection, registered, serving, file, completed>>

\* M3.with_tool
with_tool(p, n, tool) ==
    /\ Idle(p) /\ Fresh(n)
    /\ tool \notin ToolsOf(p)
    /\ pipes' = [pipes EXCEPT ![n] =
                    [NewM3(pipes[p].config, pipes[p].mcp)
                        EXCEPT !.tools = Append(pipes[p].tools, tool)]]
    /\ op' = [name |-> "with_tool", pipe |-> p, outcome |-> "returned"]
    /\ UNCHANGED <<connection, registered, serving, file, completed>>

\* M3.with_tools
with_tools(p, n, tools) ==
    /\ Idle(p) /\ Fresh(n)
    /\ NoRepeat(pipes[p].tools \o tools)
    /\ pipes' = [pipes EXCEPT ![n] =
                    [NewM3(pipes[p].config, pipes[p].mcp)
                        EXCEPT !.tools = pipes[p].tools \o tools]]
    /\ op' = [name |-> "with_tools", pipe |-> p, outcome |-> "returned"]
    /\ UNCHANGED <<connection, registered, serving, file, completed>>

\* BaseTool.initialize over the tools of a list, in order: every backend of
\* the first k - 1 tools is opened, and of tool k the backends before
\* position j (k beyond the list: all tools are opened)
initialize_tools(conn, tools, k, j) ==
    [t \in ToolObjects |-> [b \in BackendKeys |->
        \/ conn[t][b]
        \/ \E i \in 1..Len(tools) :
              /\ tools[i] = t
              /\ \/ i < k
                 \/ i = k /\ \E x \in 1..(j - 1) : BackendOrder[x] = b]]

\* M3._teardown_tools with the loop left after the first tool
teardown_first_tool(conn, tools) ==
    [t \in ToolObjects |-> [b \in BackendKeys |->
        conn[t][b] /\ ~(tools # <<>> /\ tools[1] = t)]]

\* M3._teardown_tools: every backend of every tool of the list is closed
teardown_tools(conn, tools) ==
    [t \in ToolObjects |-> [b \in BackendKeys |->
        conn[t][b] /\ ~(\E i \in 1..Len(tools) : tools[i] = t)]]

\* SQLiteBackend.initialize, BigQueryBackend.initialize on an open backend:
\* the tools of the list, up to the same position, that had a handle which
\* the new one replaces without a close
overwritten(conn, tools, k, j) ==
    {t \in ToolObjects :
        \E i \in 1..Len(tools), x \in 1..Len(BackendOrder) :
            /\ tools[i] = t
            /\ conn[t][BackendOrder[x]]
            /\ (i < k \/ (i = k /\ x < j))}

\* when a handle nothing refers to is closed is the collector's choice:
\* at once, or not before the process ends
Collectors == {"prompt", "deferred"}

\* the handles still open and unreferenced after an initialize
leaked_after(was, conn, tools, k, j, gc) ==
    was \/ (gc = "deferred" /\ overwritten(conn, tools, k, j) # {})

BuildFailures == {"none", "env", "init", "register", "type", "generate"}

\* the flag as build() leaves it if the flag were set after _generate_config
built_after_build_strict(was, fail) == (was \/ fail = "none")

\* M3.build: the value of _built when build() is left, given where it failed:
\* the flag is set once _register_actions has returned
built_after_build(was, fail) ==
    was \/ fail \in {"none", "type", "generate"}

\* M3.build, failing at the step named (or not at all)
build(p, fail, k, j, gc) ==
    /\ Idle(p)
    /\ LET me == pipes[p]
           mcp == IF me.mcp = 0 THEN p ELSE me.mcp
       IN  IF me.tools = <<>> \/ fail = "env"
           THEN \* _validate raises
                /\ op' = [name |-> "build", pipe |-> p, outcome |-> "M3BuildError"]
                /\ UNCHANGED <<pipes, connection, registered, completed, leaked>>
           ELSE /\ pipes' = [pipes EXCEPT ![p].mcp = mcp,
                                          ![p].built = built_after_build(me.built, fail)]
                /\ connection' =
                      IF fail = "init"
                      THEN initialize_tools(connection, me.tools, k, j)
                      ELSE initialize_tools(connection, me.tools,
                                            Len(me.tools) + 1, 1)
                /\ leaked' =
                      IF fail = "init"
                      THEN leaked_after(leaked, connection, me.tools, k, j, gc)
                      ELSE leaked_after(leaked, connection, me.tools,
                                        Len(me.tools) + 1, 1, gc)
                /\ registered' =
                      IF fail \in {"init", "register"} THEN registered
                      ELSE [registered EXCEPT ![mcp] = @ \cup ToolsOf(p)]
                /\ completed' = IF fail = "none" THEN completed \cup {p}
                                ELSE completed
                /\ op' = [name |-> "build", pipe |-> p,
                          outcome |-> IF fail = "none" THEN "returned"
                                      ELSE "M3BuildError"]
    /\ UNCHANGED <<serving, file>>

\* M3.run up to the server loop: refused if not built, an initialization error
\* (after the teardown of the finally clause) if there is no MCP server, else
\* the loop starts
run(p) ==
    /\ Idle(p)
    /\ IF ~pipes[p].built
       THEN /\ op' = [name |-> "run", pipe |-> p, outcome |-> "M3BuildError"]
            /\ UNCHANGED <<connection, serving>>
       ELSE IF pipes[p].mcp = 0
       THEN /\ op' = [name |-> "run", pipe |-> p, outcome |-> "raised"]
            /\ connection' = teardown_tools(connection, pipes[p].tools)
            /\ UNCHANGED serving
       ELSE /\ op' = [name |-> "run", pipe |-> p, outcome |-> "serving"]
            /\ serving' = p
            /\ UNCHANGED connection
    /\ UNCHANGED <<pipes, registered, file, completed>>

\* M3.run from the server loop on: mcp.run() returns or throws, the finally
\* clause tears the tools down
run_exit(p, how) ==
    /\ serving = p
    /\ serving' = 0
    /\ connection' = teardown_tools(connection, pipes[p].tools)
    /\ op' = [name |-> "run", pipe |-> p, outcome |-> how]
    /\ UNCHANGED <<pipes, registered, file, completed>>

\* M3.save
save(p, write_ok) ==
    /\ Idle(p)
    /\ IF ~pipes[p].built
       THEN /\ op' = [name |-> "save", pipe |-> p, outcome |-> "M3BuildError"]
            /\ UNCHANGED file
       ELSE IF ~write_ok
       THEN /\ op' = [name |-> "save", pipe |-> p, outcome |-> "OSError"]
            /\ UNCHANGED file
       ELSE /\ op' = [name |-> "save", pipe |-> p, outcome |-> "returned"]
            /\ file' =
                  [by |-> p,
                   config |-> M3Config_to_dict(config_values(pipes[p].config)),
                   tools |-> [i \in 1..Len(pipes[p].tools) |->
                       [type |-> class_name_lower(tool_fields(pipes[p].tools[i]).cls),
                        params |-> MIMIC_to_dict(tool_fields(pipes[p].tools[i]))]]]
    /\ UNCHANGED <<pipes, connection, registered, serving, completed>>

LoadFailures == {"none", "init"}

\* M3.load: the config and the tools are made from the file, the tools are
\* added to a pipeline without MCP server, post_load opens every backend of
\* every tool, no action is registered, the flag is set.  A backend that
\* cannot be opened (here the first one) ends the call with its error.
load(n, fail) ==
    /\ serving = 0
    /\ IF file.by = 0
       THEN /\ op' = [name |-> "load", pipe |-> 0, outcome |-> "FileNotFoundError"]
            /\ UNCHANGED <<pipes, connection, loaded_config, loaded_fields>>
       ELSE IF fail = "init"
       THEN /\ op' = [name |-> "load", pipe |-> 0,
                      outcome |-> "M3InitializationError"]
            /\ UNCHANGED <<pipes, connection, loaded_config, loaded_fields>>
       ELSE LET tools == SubSeq(LoadedOrder, 1, Len(file.tools))
            IN  /\ Fresh(n)
                /\ loaded_fields = <<>>
                /\ loaded_config' = M3Config_from_dict(file.config)
                /\ loaded_fields' =
                      [i \in 1..Len(file.tools) |->
                          [MIMIC_from_dict(file.tools[i].params)
                              EXCEPT !.cls = ALL_TOOLS(file.tools[i].type)]]
                /\ pipes' = [pipes EXCEPT ![n] =
                                [NewM3("loaded", 0) EXCEPT !.tools = tools,
                                                           !.built = TRUE]]
                /\ connection' =
                      initialize_tools(connection, tools, Len(tools) + 1, 1)
                /\ op' = [name |-> "load", pipe |-> n, outcome |-> "returned"]
    /\ UNCHANGED <<registered, serving, file, completed>>

InitLoadVars ==
    /\ loaded_config = ConfigValues("default")
    /\ loaded_fields = <<>>
    /\ leaked = FALSE

(***************************************************************************)
(* A backend on its own (core/tool/backend/backends).                      *)
(***************************************************************************)
NoBackendOp == [name |-> "none", backend |-> "sqlite", outcome |-> "none",
                was_open |-> FALSE]

InitBackendVars ==
    /\ b_handle = [b \in BackendKeys |-> FALSE]
    /\ b_life = [b \in BackendKeys |-> "uninitialized"]
    /\ b_stale = [b \in BackendKeys |-> FALSE]
    /\ b_op = NoBackendOp

\* the backend is open: an initialize has returned and no teardown followed
is_open(life) == life \in {"open", "reopened"}

\* execute that hands the operation to the handle without looking at it
execute_outcomes_unguarded(handle) ==
    {"rows", "No results found", "execution failed"}

\* SQLiteBackend.execute, BigQueryBackend.execute: how the call can end,
\* given whether the handle is set
execute_outcomes(handle) ==
    IF ~handle THEN {"not initialized"}
    ELSE {"rows", "No results found", "execution failed"}

\* SQLiteBackend.initialize, BigQueryBackend.initialize: a handle is made and
\* stored over the one held, or making it fails and nothing is stored
backend_initialize(b, ok, gc) ==
    /\ IF ~ok
       THEN /\ b_op' = [name |-> "initialize", backend |-> b,
                        outcome |-> "M3InitializationError",
                        was_open |-> is_open(b_life[b])]
            /\ UNCHANGED <<b_handle, b_life, b_stale>>
       ELSE /\ b_handle' = [b_handle EXCEPT ![b] = TRUE]
            /\ b_life' = [b_life EXCEPT ![b] =
                             IF @ = "uninitialized" THEN "open"
                             ELSE IF @ = "closed" THEN "reopened" ELSE @]
            /\ b_stale' = [b_stale EXCEPT ![b] =
                              @ \/ (b_handle[b] /\ gc = "deferred")]
            /\ b_op' = [name |-> "initialize", backend |-> b,
                        outcome |-> "returned", was_open |-> is_open(b_life[b])]

\* SQLiteBackend.execute, BigQueryBackend.execute
backend_execute(b, outcome) ==
    /\ outcome \in execute_outcomes(b_handle[b])
    /\ b_op' = [name |-> "execute", backend |-> b, outcome |-> outcome,
                was_open |-> is_open(b_life[b])]
    /\ UNCHANGED <<b_handle, b_life, b_stale>>

\* SQLiteBackend.teardown closes the connection it holds and forgets it;
\* BigQueryBackend.teardown only forgets the client
backend_teardown(b, gc) ==
    /\ b_handle' = [b_handle EXCEPT ![b] = FALSE]
    /\ b_life' = [b_life EXCEPT ![b] = IF is_open(@) THEN "closed" ELSE @]
    /\ b_stale' = [b_stale EXCEPT ![b] =
                      @ \/ (b = "bigquery" /\ b_handle[b] /\ gc = "deferred")]
    /\ b_op' = [name |-> "teardown", backend |-> b, outcome |-> "returned",
                was_open |-> is_open(b_life[b])]

(***************************************************************************)
(* The download stage (tools/mimic/components/data_io.py).                 *)
(***************************************************************************)
\* the files a listing can name: a URL and the target path it maps to (paths
\* are numbered in their sort order); two URLs can map to one path
DatasetFiles ==
    {[url |-> "u1", path |-> 1], [url |-> "u2", path |-> 2],
     [url |-> "u3", path |-> 2]}

Paths == {f.path : f \in DatasetFiles}

InitDownloadVars ==
    /\ all_files_to_process = <<>>
    /\ unique_files_to_process = <<>>
    /\ next_file = 1
    /\ requested = <<>>
    /\ written = {}
    /\ failed = FALSE
    /\ disk = [p \in Paths |-> "absent"]
    /\ stage = "discovered"

\* sorted(set(files), key=path): every file once, by target path; files of
\* the same path come in the order the set happens to give them
sorted_set(files) ==
    LET S == {files[i] : i \in 1..Len(files)}
    IN  {q \in [1..Cardinality(S) -> S] :
            /\ \A i, j \in 1..Cardinality(S) : q[i] = q[j] => i = j
            /\ \A i, j \in 1..Cardinality(S) : i < j => q[i].path <= q[j].path}

DownloadOutcomes == {"ok", "http error", "broken stream"}

\* the loop of _download_dataset_files going on to the next file after a
\* failed download
loop_after_keep_going(ok, i, n, count) ==
    IF i < n THEN "running" ELSE IF ok /\ count = n THEN "true" ELSE "false"

\* the loop of _download_dataset_files after file i of n: False at once when
\* the download failed, and after the last file whether all were counted
loop_after(ok, i, n, count) ==
    IF ~ok THEN "false"
    ELSE IF i < n THEN "running"
    ELSE IF count = n THEN "true" ELSE "false"

\* _download_single_file: what is at the target path afterwards.  The file is
\* opened for writing once the response has come; an exception, before or
\* after that, removes whatever is at the target path
disk_after(d, path, outcome) ==
    [d EXCEPT ![path] = IF outcome = "ok" THEN "complete" ELSE "absent"]

\* _download_dataset_files up to the loop: nothing discovered is a failure
dedupe_and_sort(unique) ==
    /\ stage = "discovered"
    /\ unique \in sorted_set(all_files_to_process)
    /\ unique_files_to_process' = unique
    /\ stage' = IF all_files_to_process = <<>> THEN "false" ELSE "running"
    /\ UNCHANGED <<all_files_to_process, next_file, requested, written,
                   failed, disk>>

\* one turn of the loop: _download_single_file on the next file
download_single_file(outcome) ==
    /\ stage = "running"
    /\ next_file <= Len(unique_files_to_process)
    /\ LET f == unique_files_to_process[next_file]
           ok == outcome = "ok"
           count == Cardinality(written) + (IF ok THEN 1 ELSE 0)
       IN  /\ requested' = Append(requested, f)
           /\ disk' = disk_after(disk, f.path, outcome)
           /\ written' = IF ok THEN written \cup {f} ELSE written
           /\ failed' = (failed \/ ~ok)
           /\ next_file' = next_file + 1
           /\ stage' = loop_after(ok, next_file, Len(unique_files_to_process),
                                  count)
    /\ UNCHANGED <<all_files_to_process, unique_files_to_process>>

(***************************************************************************)
(* The conversion of the CSV shards (m3/data_io.py).  Every shard is       *)
(* submitted to a ThreadPoolExecutor before the caller looks at a result.  *)
(***************************************************************************)
csv_files == 1..MaxShards

\* ex.submit for every file: all futures are pending
InitConvertVars ==
    /\ futures = [f \in csv_files |-> "pending"]
    /\ yielded = {}
    /\ parquet_paths = {}
    /\ converting = "collecting"

\* the path of a shard under the source root: its directory and the parts
\* of its name between the dots (a.csv.gz and a.b.csv.gz, in each directory)
rel(f) ==
    [dir |-> (f + 1) \div 2,
     parts |-> IF f % 2 = 1 THEN <<"a", "csv", "gz">>
               ELSE <<"a", "b", "csv", "gz">>]

\* PurePath.with_suffix: the last suffix is replaced, or dropped for ""
with_suffix(parts, suffix) ==
    LET stem == IF Len(parts) > 1 THEN SubSeq(parts, 1, Len(parts) - 1)
                ELSE parts
    IN  IF suffix = "" THEN stem ELSE Append(stem, suffix)

\* the output file of a shard: rel.with_suffix("").with_suffix(".parquet")
\* under the Parquet root
out(f) ==
    [dir |-> rel(f).dir,
     parts |-> with_suffix(with_suffix(rel(f).parts, ""), "parquet")]

\* ex.shutdown() without cancel_futures: what is queued stays queued
shutdown_keep_queue(fs) == fs

\* ex.shutdown(cancel_futures=True): every future still in the queue is
\* cancelled, the running ones go on
shutdown(fs) ==
    [f \in csv_files |-> IF fs[f] = "pending" THEN "cancelled" ELSE fs[f]]

\* a worker thread takes the first work item of the queue, if a thread is
\* free
worker_start(f) ==
    /\ futures[f] = "pending"
    /\ \A g \in csv_files : futures[g] = "pending" => f <= g
    /\ Cardinality({g \in csv_files : futures[g] = "running"}) < max_workers
    /\ futures' = [futures EXCEPT ![f] = "running"]
    /\ UNCHANGED <<yielded, parquet_paths, converting>>

\* _convert_one returns the output path or raises
convert_one(f, ok) ==
    /\ futures[f] = "running"
    /\ futures' = [futures EXCEPT ![f] = IF ok THEN "done" ELSE "failed"]
    /\ UNCHANGED <<yielded, parquet_paths, converting>>

\* one turn of the loop over as_completed: a finished future is handed over;
\* its path is collected, or its exception makes the caller shut the pool
\* down
collect(f) ==
    /\ converting = "collecting"
    /\ f \notin yielded
    /\ futures[f] \in {"done", "failed"}
    /\ yielded' = yielded \cup {f}
    /\ IF futures[f] = "done"
       THEN /\ parquet_paths' = parquet_paths \cup {out(f)}
            /\ UNCHANGED <<futures, converting>>
       ELSE /\ futures' = shutdown(futures)
            /\ converting' = "shutdown"
            /\ UNCHANGED parquet_paths

\* shutdown has waited for the running conversions: return False
return_false ==
    /\ converting = "shutdown"
    /\ \A f \in csv_files : futures[f] # "running"
    /\ converting' = "false"
    /\ UNCHANGED <<futures, yielded, parquet_paths>>

\* as_completed is exhausted and the with block is left: return True
return_true ==
    /\ converting = "collecting"
    /\ yielded = csv_files
    /\ converting' = "true"
    /\ UNCHANGED <<futures, yielded, parquet_paths>>

(***************************************************************************)
(* The config (core/config.py): its env map and the process environment.   *)
(***************************************************************************)
None == "None"

EnvKeys == {"K", "P_K"}

EnvValues == {"", "a", "b"}

NoConfigOp ==
    [name |-> "none", key |-> "K", default |-> None, raise_if_missing |-> FALSE,
     raised |-> FALSE, value |-> None, before |-> [k \in EnvKeys |-> None],
     environ |-> [k \in EnvKeys |-> None], new_env |-> <<>>, prefix |-> ""]

InitConfigVars ==
    /\ env_vars = [k \in EnvKeys |-> None]
    /\ environ = [k \in EnvKeys |-> None]
    /\ cfg_op = NoConfigOp

\* dict.get(key, default), os.getenv(key, default)
dict_get(d, key, default) == IF d[key] # None THEN d[key] ELSE default

\* get_env_var asking the process environment before the config's own map
get_env_var_environ_first(own, env, key, default, raise_if_missing) ==
    LET value == dict_get(env, key, dict_get(own, key, default))
    IN  IF value = None /\ raise_if_missing
        THEN [raised |-> TRUE, value |-> "M3ConfigError"]
        ELSE [raised |-> FALSE, value |-> IF value = None THEN "" ELSE value]

\* M3Config.get_env_var: the map's value, else the environment's, else the
\* default; None raises if required; `value or ""` is returned
get_env_var(own, env, key, default, raise_if_missing) ==
    LET value == dict_get(own, key, dict_get(env, key, default))
    IN  IF value = None /\ raise_if_missing
        THEN [raised |-> TRUE, value |-> "M3ConfigError"]
        ELSE [raised |-> FALSE, value |-> IF value = None THEN "" ELSE value]

\* f"{prefix}{key}" if prefix else key
prefixed(prefix, key) == IF prefix = "" THEN key ELSE "P_K"

\* the maps merge_env is given with a prefix: as items in dict order
MergeMaps(prefix) ==
    IF prefix = ""
    THEN {<<>>} \cup {<<<<k, v>>>> : k \in EnvKeys, v \in EnvValues}
         \cup {m \in {<<<<k1, v1>>, <<k2, v2>>>> :
                          k1 \in EnvKeys, k2 \in EnvKeys, v1 \in EnvValues,
                          v2 \in EnvValues} : m[1][1] # m[2][1]}
    ELSE {<<<<"K", v>>>> : v \in EnvValues}

\* merge_env raising on every key that is already set
RECURSIVE merge_env_no_repeat(_, _, _)
merge_env_no_repeat(own, new_env, prefix) ==
    IF new_env = <<>> THEN [raised |-> FALSE, env_vars |-> own]
    ELSE LET key == prefixed(prefix, new_env[1][1])
         IN  IF own[key] # None
             THEN [raised |-> TRUE, env_vars |-> own]
             ELSE merge_env_no_repeat([own EXCEPT ![key] = new_env[1][2]],
                                      Tail(new_env), prefix)

\* M3Config.merge_env: item by item; an item whose key is set to another
\* value raises, with the items before it already stored
RECURSIVE merge_env(_, _, _)
merge_env(own, new_env, prefix) ==
    IF new_env = <<>> THEN [raised |-> FALSE, env_vars |-> own]
    ELSE LET key == prefixed(prefix, new_env[1][1])
         IN  IF own[key] # None /\ own[key] # new_env[1][2]
             THEN [raised |-> TRUE, env_vars |-> own]
             ELSE merge_env([own EXCEPT ![key] = new_env[1][2]],
                            Tail(new_env), prefix)

(***************************************************************************)
(* Ingest (tools/mimic/components/data_io.py, data_io.py): the stages of   *)
(* an ingest and the registration of one view per Parquet file.  A file    *)
(* name, a directory name and a view name are sequences of characters.     *)
(***************************************************************************)
Suffix == <<".", "p", "a", "r", "q", "u", "e", "t">>

\* names of directories and stems of files under the Parquet root
PartNames ==
    {<<"a">>, <<"A">>, <<"a", "-", "a">>, <<"a", "_", "a">>, <<"a", ".", "a">>}

hosp == <<"h", "o", "s", "p">>

admissions == <<"a", "d", "m", "i", "s", "s", "i", "o", "n", "s">>

\* the paths of Parquet files relative to the root: a file in the root, or in
\* one directory
RelPaths ==
    {<<n \o Suffix>> : n \in PartNames}
    \cup {<<d, n \o Suffix>> : d \in {<<"a">>, <<"A">>}, n \in PartNames}
    \cup {<<hosp, admissions \o Suffix>>, <<hosp \o <<"_">> \o admissions \o Suffix>>}

\* what parquet_root.rglob("*.parquet") can give: distinct files in any order
ParquetLists ==
    UNION {{l \in [1..n -> RelPaths] : \A i, j \in 1..n : i # j => l[i] # l[j]} :
              n \in 0..MaxViews}

\* PurePath.stem: the final component without its last suffix
path_stem(name) ==
    LET dots == {i \in 2..Len(name) : name[i] = "."}
        last_dot == CHOOSE i \in dots : \A k \in dots : k <= i
    IN  IF dots = {} THEN name ELSE SubSeq(name, 1, last_dot - 1)

\* list(rel.parent.parts) + [rel.stem]
path_parts(path) ==
    Append(SubSeq(path, 1, Len(path) - 1), path_stem(path[Len(path)]))

\* str.lower() on the letters a name can hold
str_lower(name) ==
    [i \in 1..Len(name) |-> IF name[i] = "A" THEN "a" ELSE name[i]]

\* str.replace(old, new) for a one-character old and new
str_replace(name, old, new) ==
    [i \in 1..Len(name) |-> IF name[i] = old THEN new ELSE name[i]]

\* sep.join(names)
RECURSIVE str_join(_, _)
str_join(sep, names) ==
    IF names = <<>> THEN <<>>
    ELSE IF Len(names) = 1 THEN names[1]
    ELSE names[1] \o <<sep>> \o str_join(sep, Tail(names))

\* the view name without the lower-casing
view_name_as_spelled(path) ==
    LET names == path_parts(path)
    IN  str_join("_", [i \in 1..Len(names) |->
                          str_replace(str_replace(names[i], "-", "_"),
                                      ".", "_")])

\* "_".join(p.lower().replace("-", "_").replace(".", "_") for p in parts)
view_name(path) ==
    LET names == path_parts(path)
    IN  str_join("_", [i \in 1..Len(names) |->
                          str_replace(str_replace(str_lower(names[i]), "-", "_"),
                                      ".", "_")])

\* CREATE OR REPLACE VIEW name AS SELECT * FROM read_parquet(path)
create_or_replace_view(db, name, path) ==
    {v \in db : v.name # name} \cup {[name |-> name, file |-> path]}

\* the stages of the two ingest functions, in the order of their code
stage_order(entry) ==
    IF entry = "initialize" THEN <<"download", "load">>
    ELSE <<"raw_files", "convert", "register">>

\* an ingest going on to its next stage whatever the stage before reported
ingest_after_keep_going(entry, started, reports, ok) ==
    IF Len(started) < Len(stage_order(entry))
    THEN [started |-> Append(started, stage_order(entry)[Len(started) + 1]),
          reports |-> Append(reports, ok), result |-> "none"]
    ELSE [started |-> started, reports |-> Append(reports, ok),
          result |-> IF ok THEN "true" ELSE "false"]

\* the ingest after its running stage has reported: `if not stage: return
\* False`, else the next stage starts, and after the last one True is returned
ingest_after(entry, started, reports, ok) ==
    IF ~ok
    THEN [started |-> started, reports |-> Append(reports, ok), result |-> "false"]
    ELSE IF Len(started) < Len(stage_order(entry))
    THEN [started |-> Append(started, stage_order(entry)[Len(started) + 1]),
          reports |-> Append(reports, ok), result |-> "none"]
    ELSE [started |-> started, reports |-> Append(reports, ok), result |-> "true"]

running(s) ==
    /\ i_result = "none"
    /\ Len(i_started) = Len(i_reports) + 1
    /\ i_started[Len(i_started)] = s

InitIngestVars ==
    /\ i_entry = "none"
    /\ i_started = <<>>
    /\ i_reports = <<>>
    /\ i_result = "none"
    /\ parquet_files = <<>>
    /\ next_view = 0
    /\ created = 0
    /\ views = {}

(***************************************************************************)
(* The server module's BigQuery client (mcp_server.py).  A client is       *)
(* known by the project it was constructed for and by its rank among the   *)
(* clients constructed.                                                    *)
(***************************************************************************)
Projects == {"p1", "p2"}

NoClient == [project |-> None, serial |-> 0]

NoBqOp ==
    [name |-> "none", env |-> None, ds |-> None, target |-> None,
     raised |-> FALSE, client |-> NoClient]

\* env_project or ds_project or "physionet-data"
target_project_id(env, ds) ==
    IF env \notin {None, ""} THEN env
    ELSE IF ds \notin {None, ""} THEN ds
    ELSE "physionet-data"

\* _get_bq_client handing out the cached client whatever its project
get_bq_client_any_project(cache, target, made, ok) ==
    IF cache.client # NoClient
    THEN [raised |-> FALSE, client |-> cache.client, cache |-> cache, made |-> made]
    ELSE IF ~ok
    THEN [raised |-> TRUE, client |-> NoClient, cache |-> cache, made |-> made]
    ELSE LET client == [project |-> target, serial |-> made + 1]
         IN  [raised |-> FALSE, client |-> client,
              cache |-> [client |-> client, project_id |-> target],
              made |-> made + 1]

\* _get_bq_client: the cached client if there is one and it was stored for
\* the target project; else a new client for the target, stored with it; a
\* construction that fails raises RuntimeError and stores nothing
get_bq_client(cache, target, made, ok) ==
    IF cache.client # NoClient /\ cache.project_id = target
    THEN [raised |-> FALSE, client |-> cache.client, cache |-> cache, made |-> made]
    ELSE IF ~ok
    THEN [raised |-> TRUE, client |-> NoClient, cache |-> cache, made |-> made]
    ELSE LET client == [project |-> target, serial |-> made + 1]
         IN  [raised |-> FALSE, client |-> client,
              cache |-> [client |-> client, project_id |-> target],
              made |-> made + 1]

\* the module as imported: _init_backend() has run once
InitClientVars ==
    /\ bq_backend = "duckdb"
    /\ env_project = None
    /\ ds_project = None
    /\ bq_client_cache = [client |-> NoClient, project_id |-> None]
    /\ bq_made = 0
    /\ bq_op = NoBqOp

InitExtra ==
    /\ InitRateVars
    /\ InitLoadVars
    /\ InitBackendVars
    /\ InitDownloadVars
    /\ InitConvertVars
    /\ InitConfigVars
    /\ InitIngestVars
    /\ InitClientVars

(***************************************************************************)
(* Specification SpecPipe: any sequence of builder, build, run and save    *)
(* calls.                                                                  *)
(***************************************************************************)
ToolLists == UNION {[1..n -> Tools] : n \in 1..Cardinality(Tools)}

InitPipe ==
    /\ sql_query = <<>>
    /\ pcq = "new"
    /\ verdict = NoVerdict
    /\ server_verdict = NoVerdict
    /\ result = NoResult
    /\ executed = <<>>
    /\ data = 0
    /\ InitPipeVars
    /\ InitAuthVars
    /\ InitExtra

WithConfig ==
    /\ \E p \in PipeIds, n \in PipeIds, c \in Configs : with_config(p, n, c)
    /\ UNCHANGED <<qvars, avars, evars>>

WithTool ==
    /\ \E p \in PipeIds, n \in PipeIds, t \in Tools : with_tool(p, n, t)
    /\ UNCHANGED <<qvars, avars, evars>>

WithTools ==
    /\ \E p \in PipeIds, n \in PipeIds, ts \in ToolLists : with_tools(p, n, ts)
    /\ UNCHANGED <<qvars, avars, evars>>

\* the collector has a choice only where build() replaces a handle
CollectorsFor(p, fail) ==
    IF fail = "env" \/ overwritten(connection, pipes[p].tools,
                                   Len(pipes[p].tools) + 1, 1) = {}
    THEN {"prompt"} ELSE Collectors

Build ==
    /\ \E p \in PipeIds, fail \in BuildFailures :
          \E k \in (IF fail = "init" THEN 1..Len(pipes[p].tools) ELSE {1}),
             j \in (IF fail = "init" THEN 1..Len(BackendOrder) ELSE {1}),
             gc \in CollectorsFor(p, fail) :
             build(p, fail, k, j, gc)
    /\ UNCHANGED <<qvars, avars, cvars, bvars, dvars, kvars, nvars, loaded_config,
                   loaded_fields>>

Run ==
    /\ \E p \in PipeIds : run(p)
    /\ UNCHANGED <<qvars, avars, evars>>

RunExit ==
    /\ \E p \in PipeIds, how \in {"returned", "raised"} : run_exit(p, how)
    /\ UNCHANGED <<qvars, avars, evars>>

Save ==
    /\ \E p \in PipeIds, write_ok \in BOOLEAN : save(p, write_ok)
    /\ UNCHANGED <<qvars, avars, evars>>

Load ==
    /\ \E n \in PipeIds, fail \in LoadFailures : load(n, fail)
    /\ UNCHANGED <<qvars, avars, cvars, bvars, dvars, kvars, nvars, leaked>>

NextPipe == WithConfig \/ WithTool \/ WithTools \/ Build \/ Run \/ RunExit \/ Save

SpecPipe == InitPipe /\ [][NextPipe]_vars

(***************************************************************************)
(* Specification SpecLoad: a pipeline that was configured, given its tools *)
(* and built is saved, loaded, built again and run.  Pipeline 1 is the     *)
(* object build() has returned on; the objects the builder calls made on   *)
(* the way are no longer referred to.                                      *)
(***************************************************************************)
InitLoad ==
    /\ sql_query = <<>>
    /\ pcq = "new"
    /\ verdict = NoVerdict
    /\ server_verdict = NoVerdict
    /\ result = NoResult
    /\ executed = <<>>
    /\ data = 0
    /\ \E c \in Configs, ts \in ToolLists :
          /\ NoRepeat(ts)
          /\ pipes = [p \in PipeIds |->
                         IF p = 1
                         THEN [NewM3(c, 1) EXCEPT !.tools = ts, !.built = TRUE]
                         ELSE Unborn]
          /\ connection =
                initialize_tools([t \in ToolObjects |-> [b \in BackendKeys |-> FALSE]],
                                 ts, Len(ts) + 1, 1)
          /\ registered = [m \in PipeIds |->
                              IF m = 1 THEN {ts[i] : i \in 1..Len(ts)} ELSE {}]
    /\ serving = 0
    /\ file = NoFile
    /\ op = [name |-> "build", pipe |-> 1, outcome |-> "returned"]
    /\ completed = {1}
    /\ InitAuthVars
    /\ InitExtra

NextLoad == Save \/ Load \/ Build \/ Run \/ RunExit

SpecLoad == InitLoad /\ [][NextLoad]_vars

(***************************************************************************)
(* Specification SpecQuery: one SQL text, given to either validator or to  *)
(* the raw-query action.                                                   *)
(***************************************************************************)
InitQuery ==
    /\ sql_query \in Queries
    /\ pcq = "new"
    /\ verdict = NoVerdict
    /\ server_verdict = NoVerdict
    /\ result = NoResult
    /\ executed = <<>>
    /\ data = 0
    /\ InitPipeVars
    /\ InitAuthVars
    /\ InitExtra

IsSafeQuery ==
    /\ pcq = "new"
    /\ pcq' = "validated"
    /\ verdict' = is_safe_query(sql_query)
    /\ server_verdict' = server_is_safe_query(sql_query)
    /\ UNCHANGED <<sql_query, result, executed, data>>
    /\ UNCHANGED <<pvars, avars, evars>>

ExecuteMimicQuery ==
    /\ pcq = "new"
    /\ \E outcome \in BackendOutcomes :
          LET r == execute_mimic_query(sql_query, outcome)
          IN  /\ result' = r.result
              /\ executed' = r.executed
              /\ data' = IF r.executed = <<>> THEN data
                         ELSE backend_data_after(data, r.executed[1])
    /\ pcq' = "executed"
    /\ UNCHANGED <<sql_query, verdict, server_verdict>>
    /\ UNCHANGED <<pvars, avars, evars>>

NextQuery == IsSafeQuery \/ ExecuteMimicQuery

SpecQuery == InitQuery /\ [][NextQuery]_vars

(***************************************************************************)
(* The middleware called directly (SpecAuth) and through the registered    *)
(* actions (SpecServe).  admits is history: per subject, the times of the  *)
(* validations admitted less than rate_limit_window ago.                   *)
(***************************************************************************)
InitOther ==
    /\ sql_query = <<>>
    /\ pcq = "new"
    /\ verdict = NoVerdict
    /\ server_verdict = NoVerdict
    /\ result = NoResult
    /\ executed = <<>>
    /\ data = 0
    /\ InitPipeVars

\* time passes
Tick ==
    /\ now < MaxTime
    /\ now' = now + 1
    /\ admits' = [s \in Subjects |->
                    SelectSeq(admits[s], LAMBDA t : now' - t < rate_limit_window)]
    /\ UNCHANGED <<jwks_cache, jwks_cache_time, rate_limit_cache, last,
                   enabled, env_token, call, qvars, pvars, evars>>

\* the document a call to authenticate worked with, {} when it got none
jwks_used(fetch) ==
    get_jwks(jwks_cache, jwks_cache_time, now, fetch).jwks

\* the provider's answers that can matter to a call made now
FetchesNow ==
    IF get_jwks(jwks_cache, jwks_cache_time, now, "document").fetched
    THEN Fetches ELSE {"document"}

Authenticate ==
    \E token \in Tokens, fetch \in FetchesNow :
        LET a == authenticate(TokenText(token), now, fetch, jwks_cache,
                              jwks_cache_time, rate_limit_cache)
        IN  /\ jwks_cache' = a.jwks_cache
            /\ jwks_cache_time' = a.jwks_cache_time
            /\ rate_limit_cache' = a.rate_limit_cache
            /\ admits' = IF a.ok
                         THEN [admits EXCEPT ![token.sub] = Append(@, now)]
                         ELSE admits
            /\ last' = [called |-> TRUE, token |-> token, time |-> now,
                        ok |-> a.ok, err |-> a.err, fetched |-> a.fetched,
                        jwks |-> jwks_used(fetch),
                        recent |-> Len(admits[token.sub]),
                        cached |-> Len(rate_limit_cache[token.sub]),
                        cache_before |-> jwks_cache,
                        cache_time_before |-> jwks_cache_time]
            /\ UNCHANGED <<now, enabled, env_token, call, qvars, pvars, evars>>

InitAuth == InitAuthVars /\ InitOther /\ InitExtra

NextAuth == Authenticate \/ Tick

SpecAuth == InitAuth /\ [][NextAuth]_vars

\* the environment sets M3_OAUTH2_TOKEN
SetToken ==
    /\ \E e \in EnvTokens : env_token' = e
    /\ env_token' # env_token
    /\ UNCHANGED <<now, jwks_cache, jwks_cache_time, rate_limit_cache, admits,
                   last, enabled, call, qvars, pvars, evars>>

\* the arguments an action takes: the raw query, or whether the limit is valid
ActionArgs(action) ==
    IF action = "execute_mimic_query"
    THEN [limit_ok : {TRUE}, q : ServeQueries]
    ELSE IF action \in {"get_icu_stays", "get_lab_results", "get_race_distribution"}
    THEN [limit_ok : BOOLEAN, q : {<<>>}]
    ELSE [limit_ok : {TRUE}, q : {<<>>}]

\* a client invokes a registered action
Invoke ==
    \E action \in Actions, outcome \in BackendOutcomes, fetch \in Fetches :
      \E args \in ActionArgs(action) :
        LET c == decorator(enabled, env_token, action, args.limit_ok, args.q, outcome,
                           now, fetch, jwks_cache, jwks_cache_time,
                           rate_limit_cache)
        IN  /\ jwks_cache' = c.auth.jwks_cache
            /\ jwks_cache_time' = c.auth.jwks_cache_time
            /\ rate_limit_cache' = c.auth.rate_limit_cache
            /\ admits' = IF c.auth.ok
                         THEN [admits EXCEPT ![bearer_stripped(env_token).jwt[1].sub] =
                                                Append(@, now)]
                         ELSE admits
            /\ call' = [action |-> c.action, tokenless |-> c.tokenless,
                        authenticated |-> c.authenticated, body |-> c.body,
                        raised |-> c.raised, text |-> c.text,
                        backend_calls |-> c.backend_calls]
            /\ UNCHANGED <<now, last, enabled, env_token, qvars, pvars, evars>>

InitServe ==
    /\ now = 0
    /\ jwks_cache = {}
    /\ jwks_cache_time = 0
    /\ rate_limit_cache = [s \in Subjects |-> <<>>]
    /\ admits = [s \in Subjects |-> <<>>]
    /\ last = NoLast
    /\ enabled \in BOOLEAN
    /\ env_token = NoEnvToken
    /\ call = NoCall
    /\ InitOther
    /\ InitExtra

NextServe == SetToken \/ Invoke

SpecServe == InitServe /\ [][NextServe]_vars

(***************************************************************************)
(* Claims on the validator and the raw-query action (SpecQuery).           *)
(***************************************************************************)
statements(q) == parse(q)

is_write_statement(q) ==
    /\ Len(statements(strip(q))) = 1
    /\ get_type(statements(strip(q))[1]) = "UPDATE"

\* C2: execute_mimic_query hands a query to the backend only if the validator
\* accepts that same query; for a single write/DDL statement the result holds
\* "Security Error" and "Only SELECT", the backend is not called and its data
\* is unchanged.
C2_ValidatedBeforeBackend ==
    pcq = "executed" =>
        /\ \A i \in 1..Len(executed) :
              executed[i] = sql_query /\ is_safe_query(executed[i])[1]
        /\ is_write_statement(sql_query) =>
              /\ has_security_error(result)
              /\ has_only_select(result)
              /\ executed = <<>>
              /\ data = 0

\* a write statement that also spells DESCRIBE was refused with the
\* exploration hint, and a safe query reached the backend
C2_Witness ==
    /\ pcq = "executed"
    /\ is_write_statement(sql_query)
    /\ contains(sql_query, "DESCRIBE")
    /\ result.kind = "Security Error"
    /\ result.hint = "get_table_info"

\* C6 (as claimed): a single statement is accepted only if its type is SELECT
\* or its trimmed text starts with PRAGMA.
C6_OnlySelectOrPragma ==
    (pcq = "validated" /\ Len(statements(strip(sql_query))) = 1) =>
        /\ verdict[1] =>
              \/ get_type(statements(strip(sql_query))[1]) = "SELECT"
              \/ startswith(strip(sql_query), "PRAGMA")
        /\ server_verdict[1] =>
              \/ get_type(statements(strip(sql_query))[1]) = "SELECT"
              \/ startswith(strip(sql_query), "PRAGMA")

whitespace_surrounded(q, keyword) ==
    \E i \in 2..(Len(q) - 1) :
        q[i] = keyword /\ q[i - 1] \in Whitespace /\ q[i + 1] \in Whitespace

\* C7 (as claimed): a query holding a deny-listed keyword surrounded by
\* whitespace is rejected, whatever its statement type or leading text.
C7_DenyListedRejected ==
    (pcq = "validated"
       /\ \E k \in dangerous_keywords : whitespace_surrounded(sql_query, k)) =>
        ~verdict[1] /\ ~server_verdict[1]

\* C8: a query that parses to more than one top-level statement is rejected
\* with exactly the reason "Multiple statements not allowed".
C8_MultipleStatements ==
    (pcq = "validated" /\ Len(statements(sql_query)) > 1) =>
        /\ verdict = <<FALSE, "Multiple statements not allowed">>
        /\ server_verdict = <<FALSE, "Multiple statements not allowed">>

\* two statements, the first a write, were refused as multiple statements
C8_Witness ==
    /\ pcq = "validated"
    /\ Len(statements(sql_query)) > 1
    /\ get_type(statements(sql_query)[1]) = "UPDATE"
    /\ verdict = <<FALSE, "Multiple statements not allowed">>

(***************************************************************************)
(* Claims on the pipeline life cycle (SpecPipe).                           *)
(***************************************************************************)
\* C1 (as claimed): run() starts the server loop and save() writes the file
\* only if build() has completed on that pipeline; on a pipeline that is not
\* built each raises a build error and changes nothing.
C1_BuildPrecedesRunAndSave ==
    [][/\ (op'.name = "run" /\ op'.outcome = "serving") => op'.pipe \in completed'
       /\ (op'.name = "save" /\ op'.outcome = "returned") => op'.pipe \in completed'
       /\ (op'.name \in {"run", "save"} /\ ~pipes[op'.pipe].built) =>
             /\ op'.outcome = "M3BuildError"
             /\ UNCHANGED <<pipes, connection, registered, serving, file>>]_vars

\* C4: once run() has passed its built check, every backend of every tool of
\* the pipeline is closed when run() returns or raises.
C4_TornDownWhenRunEnds ==
    (op.name = "run" /\ op.outcome \in {"returned", "raised"}) =>
        \A t \in ToolsOf(op.pipe), b \in BackendKeys : ~connection[t][b]

\* the server loop of a pipeline of two tools threw and run() raised
C4_Witness ==
    /\ op.name = "run"
    /\ op.outcome = "raised"
    /\ Cardinality(ToolsOf(op.pipe)) = 2
    /\ \A t \in Tools, b \in BackendKeys : ~connection[t][b]

(***************************************************************************)
(* Claims on the registered actions behind the wrapper (SpecServe).        *)
(***************************************************************************)
\* C3: with authentication enabled, the body of a wrapped action has run
\* only if authenticate succeeded in that invocation; an invocation that
\* finds no token fails with "Missing OAuth2 access token", runs no body and
\* makes no call to the backend.
C3_AuthBeforeBody ==
    (enabled /\ call.action # "none") =>
        /\ call.body => call.authenticated
        /\ call.backend_calls > 0 => call.authenticated
        /\ call.tokenless =>
              /\ call.raised
              /\ call.text = "Missing OAuth2 access token"
              /\ ~call.body
              /\ call.backend_calls = 0

C3_Witness ==
    /\ enabled
    /\ call.action = "execute_mimic_query"
    /\ call.authenticated
    /\ call.body
    /\ call.backend_calls = 1

C3_WitnessNoToken ==
    /\ enabled
    /\ call.action # "none"
    /\ call.tokenless
    /\ call.text = "Missing OAuth2 access token"

\* C5: no invocation of a registered action ends in an exception: every
\* failure of the backend or of authentication comes back as text.
C5_NoActionRaises ==
    call.action # "none" => ~call.raised

(***************************************************************************)
(* Claims on authenticate (SpecAuth).                                      *)
(***************************************************************************)
\* the signature verifies under the key of the JWKS document the token's
\* kid names
SignatureVerifies(l) ==
    /\ l.token.kid \in l.jwks
    /\ l.token.signer = l.token.kid

NotExpired(l) == l.token.exp > l.time

AudienceAndIssuer(l) ==
    /\ l.token.aud = audience
    /\ l.token.iss = issuer_url

ScopesGranted(l) ==
    \A s \in required_scopes : s \in l.token.scope \/ s \in l.token.scp

TokenChecksPass(l) ==
    /\ SignatureVerifies(l)
    /\ kty(l.token.kid) = "RSA"
    /\ l.token.nbf <= l.time
    /\ NotExpired(l)
    /\ AudienceAndIssuer(l)
    /\ ScopesGranted(l)

C10_RateLimit ==
    (last.called /\ TokenChecksPass(last)) =>
        /\ last.recent >= rate_limit_requests =>
              (~last.ok /\ last.err = "Rate limit exceeded")
        /\ last.recent = 0 => last.ok

C10_Witness ==
    /\ last.called
    /\ last.ok
    /\ last.recent = 0
    /\ last.cached = rate_limit_requests
    /\ last.time >= rate_limit_window

C10_WitnessLimited ==
    /\ last.called
    /\ ~last.ok
    /\ last.err = "Rate limit exceeded"
    /\ last.recent = rate_limit_requests

(***************************************************************************)
(* Auth._check_rate_limit entered by several invocations at once           *)
(* (SpecRate).  The code holds no lock, so each statement of the function  *)
(* is a step of its own and the steps of the invocations interleave.       *)
(***************************************************************************)
\* line 170 with the comparison off by one
over_limit_strict(user_requests) == Len(user_requests) > rate_limit_requests

\* line 170: len(user_requests) >= self.rate_limit_requests
over_limit(user_requests) == Len(user_requests) >= rate_limit_requests

\* the subjects an invocation's token may name: both invocations may act for
\* the same subject, and one of them for another subject as well
SubjectsOf(i) == IF i = "i1" THEN {"alice"} ELSE Subjects

\* lines 165-166: user_id = payload.get("sub"); current_time = time.time()
RateEnter ==
    \E i \in Invocations : \E s \in SubjectsOf(i) :
        /\ rl_pc[i] = "idle"
        /\ rl_pc' = [rl_pc EXCEPT ![i] = "entered"]
        /\ rl_local' = [rl_local EXCEPT ![i] =
                          [user_id |-> s, current_time |-> now,
                           user_requests |-> <<>>]]
        /\ UNCHANGED <<qvars, pvars, avars, lvars, bvars, dvars, kvars, nvars>>

\* lines 167-169: read the subject's list and keep the entries of the window
RatePrune ==
    \E i \in Invocations :
        /\ rl_pc[i] = "entered"
        /\ rl_pc' = [rl_pc EXCEPT ![i] = "pruned"]
        /\ rl_local' = [rl_local EXCEPT ![i].user_requests =
                          SelectAfter(rate_limit_cache[rl_local[i].user_id],
                                      rl_local[i].current_time - rate_limit_window)]
        /\ UNCHANGED <<qvars, pvars, avars, lvars, bvars, dvars, kvars, nvars>>

\* lines 170-171: raise when the limit is reached
RateRefuse ==
    \E i \in Invocations :
        /\ rl_pc[i] = "pruned"
        /\ over_limit(rl_local[i].user_requests)
        /\ rl_pc' = [rl_pc EXCEPT ![i] = "idle"]
        /\ rl_local' = [rl_local EXCEPT ![i] = NoLocal]
        /\ UNCHANGED <<qvars, pvars, avars, lvars, bvars, dvars, kvars, nvars>>

\* lines 172-173: append the time read on entry and store the list
RateStore ==
    \E i \in Invocations :
        /\ rl_pc[i] = "pruned"
        /\ ~over_limit(rl_local[i].user_requests)
        /\ rate_limit_cache' =
              [rate_limit_cache EXCEPT ![rl_local[i].user_id] =
                  Append(rl_local[i].user_requests, rl_local[i].current_time)]
        /\ rl_pc' = [rl_pc EXCEPT ![i] = "idle"]
        /\ rl_local' = [rl_local EXCEPT ![i] = NoLocal]
        /\ UNCHANGED <<qvars, pvars, now, jwks_cache, jwks_cache_time, admits,
                       last, enabled, env_token, call, lvars, bvars, dvars,
                       kvars, nvars>>

InitRate == InitOther /\ InitAuthVars /\ InitExtra

NextRate == RateEnter \/ RatePrune \/ RateRefuse \/ RateStore \/ Tick

SpecRate == InitRate /\ [][NextRate]_vars

\* the timestamps of a subject's list that fall inside the window ending now
in_window(s) ==
    {k \in 1..Len(rate_limit_cache[s]) :
        now - rate_limit_cache[s][k] < rate_limit_window}

\* C11: whatever the interleaving of the invocations, the rate-limit table
\* holds for every subject at most rate_limit_requests timestamps inside the
\* current window.
C11_AtMostNInWindow ==
    \A s \in Subjects : Cardinality(in_window(s)) <= rate_limit_requests

\* the table is full for a subject while an invocation that read the list
\* before it filled is about to store its own copy for that subject
C11_Witness ==
    \E s \in Subjects, i \in Invocations :
        /\ Cardinality(in_window(s)) = rate_limit_requests
        /\ rl_pc[i] = "pruned"
        /\ rl_local[i].user_id = s
        /\ ~over_limit(rl_local[i].user_requests)

(***************************************************************************)
(* Claims on the JWKS cache (SpecAuth).                                    *)
(***************************************************************************)
\* the cache held a document younger than the TTL when the call began
cache_was_fresh(l) ==
    /\ l.cache_before # {}
    /\ l.time - l.cache_time_before < jwks_cache_ttl

\* C12: a JWKS document a call of authenticate worked with was fetched
\* during that call or was the cached one, cached less than jwks_cache_ttl
\* earlier; a cached document younger than the TTL is used without a fetch,
\* and an older one is never used: the call fetches instead.
C12_JwksFreshOrFetched ==
    last.called =>
        /\ last.jwks # {} =>
              \/ last.fetched
              \/ cache_was_fresh(last) /\ last.jwks = last.cache_before
        /\ cache_was_fresh(last) =>
              ~last.fetched /\ last.jwks = last.cache_before
        /\ ~cache_was_fresh(last) => last.fetched

\* a call that found a cached document as old as the TTL fetched a new one
\* and accepted the token with it
C12_Witness ==
    /\ last.called
    /\ last.cache_before # {}
    /\ last.time - last.cache_time_before >= jwks_cache_ttl
    /\ last.fetched
    /\ last.ok

IsPrefix(a, b) == Len(a) <= Len(b) /\ SubSeq(b, 1, Len(a)) = a

C18_TornDownBeforeErrorPropagates ==
    (op.name \in {"build", "run"} /\ op.outcome \in {"M3BuildError", "raised"}) =>
        \A t \in ToolsOf(op.pipe), b \in BackendKeys : ~connection[t][b]

(***************************************************************************)
(* Claims on save and load (SpecLoad).                                     *)
(***************************************************************************)
\* what a pipeline is made of: the values of its config, and of each tool in
\* order its type, its parameters (active backend, config, backends) and each
\* backend's type and connection parameter
pipeline_values(p) ==
    [config |-> config_values(pipes[p].config),
     tools |-> [i \in 1..Len(pipes[p].tools) |->
                  LET f == tool_fields(pipes[p].tools[i])
                  IN  [type |-> f.cls, backend_key |-> f.backend_key,
                       config |-> config_values(f.config),
                       backends |-> f.backends]]]

\* no field of the file is a connection handle: a backend's entry has its
\* connection parameter and nothing else
no_handle_in_file ==
    \A i \in 1..Len(file.tools) :
        \A x \in 1..Len(file.tools[i].params.backends) :
            DOMAIN file.tools[i].params.backends[x].params \in
                {{"path"}, {"project"}}

\* C13 (as claimed): the pipeline load() returns has the config values, the
\* tool types in order and every tool's parameters, backends included, of
\* the pipeline that was saved, and the file holds no connection handle.
C13_LoadEqualsSaved ==
    (op.name = "load" /\ op.outcome = "returned") =>
        /\ pipeline_values(op.pipe) = pipeline_values(file.by)
        /\ no_handle_in_file

\* C14 (as claimed): run() called on the pipeline load() has just returned,
\* with no build() in between, starts the MCP server loop, and the actions
\* of every loaded tool are bound on the pipeline's MCP server.
C14_LoadedPipelineRuns ==
    [][(/\ op.name = "load" /\ op.outcome = "returned"
        /\ op'.name = "run" /\ op'.pipe = op.pipe) =>
            /\ pipes[op.pipe].built
            /\ op'.outcome = "serving"
            /\ serving' = op.pipe
            /\ pipes'[op.pipe].mcp # 0
            /\ ToolsOf(op.pipe) \subseteq registered'[pipes'[op.pipe].mcp]]_vars

\* C17 (as claimed): after build() has returned on a pipeline that was
\* already built (by an earlier build() or by load()), every backend of its
\* tools has one open connection, no connection is open that nothing refers
\* to, and the actions of its tools are bound on its MCP server.
C17_BuildIdempotent ==
    [][(/\ op'.name = "build" /\ op'.outcome = "returned"
        /\ pipes[op'.pipe].built) =>
            /\ \A t \in ToolsOf(op'.pipe), b \in BackendKeys : connection'[t][b]
            /\ ~leaked'
            /\ ToolsOf(op'.pipe) \subseteq registered'[pipes'[op'.pipe].mcp]]_vars

(***************************************************************************)
(* Specification SpecBackend: any sequence of initialize, execute and      *)
(* teardown calls on an embedded and on a cloud backend.                   *)
(***************************************************************************)
BackendInitialize ==
    /\ \E b \in BackendKeys, ok \in BOOLEAN, gc \in Collectors :
          backend_initialize(b, ok, gc)
    /\ UNCHANGED <<qvars, pvars, avars, cvars, lvars, dvars, kvars, nvars>>

BackendExecute ==
    /\ \E b \in BackendKeys :
          \E outcome \in execute_outcomes(b_handle[b]) : backend_execute(b, outcome)
    /\ UNCHANGED <<qvars, pvars, avars, cvars, lvars, dvars, kvars, nvars>>

BackendTeardown ==
    /\ \E b \in BackendKeys, gc \in Collectors : backend_teardown(b, gc)
    /\ UNCHANGED <<qvars, pvars, avars, cvars, lvars, dvars, kvars, nvars>>

InitBackend == InitOther /\ InitAuthVars /\ InitExtra

NextBackend == BackendInitialize \/ BackendExecute \/ BackendTeardown

SpecBackend == InitBackend /\ [][NextBackend]_vars

\* the handle is set exactly while the backend is open, and execute ends
\* with a result or an execution error while it is open and with the
\* not-initialized error while it is not
lifecycle_kept ==
    /\ \A b \in BackendKeys : b_handle[b] <=> is_open(b_life[b])
    /\ b_op.name = "execute" =>
          /\ b_op.outcome \in {"rows", "No results found"} => b_op.was_open
          /\ ~b_op.was_open => b_op.outcome = "not initialized"
          /\ b_op.was_open => b_op.outcome # "not initialized"
    /\ (b_op.name = "initialize" /\ b_op.outcome = "returned") =>
          b_handle[b_op.backend]
    /\ b_op.name = "teardown" => ~b_handle[b_op.backend]

\* C15: execute returns a result only while the backend is open (an
\* initialize has returned and no teardown followed it); on a backend that
\* is not open it ends with the not-initialized error; no execute sets,
\* drops or closes a handle; an initialize after a teardown opens the
\* backend again.
C15_ExecuteOnlyWhileOpen ==
    /\ []lifecycle_kept
    /\ [][b_op'.name = "execute" => UNCHANGED <<b_handle, b_stale>>]_vars

\* a backend that was opened, torn down and opened again returned rows
C15_Witness ==
    /\ b_op.name = "execute" /\ b_op.outcome = "rows"
    /\ b_life[b_op.backend] = "reopened"

(***************************************************************************)
(* Specification SpecDownload: the listing pages have been read; the files *)
(* found (with repeats, in any order) are downloaded.  Files of an earlier *)
(* run may be on the disk.                                                 *)
(***************************************************************************)
FileLists == UNION {[1..n -> DatasetFiles] : n \in 0..MaxFiles}

InitDownload ==
    /\ InitOther
    /\ InitAuthVars
    /\ InitRateVars
    /\ InitLoadVars
    /\ InitBackendVars
    /\ InitConvertVars
    /\ InitConfigVars
    /\ InitIngestVars
    /\ InitClientVars
    /\ all_files_to_process \in FileLists
    /\ unique_files_to_process = <<>>
    /\ next_file = 1
    /\ requested = <<>>
    /\ written = {}
    /\ failed = FALSE
    /\ disk \in [Paths -> {"absent", "complete"}]
    /\ stage = "discovered"

DedupeAndSort ==
    /\ \E unique \in sorted_set(all_files_to_process) : dedupe_and_sort(unique)
    /\ UNCHANGED <<qvars, pvars, avars, cvars, lvars, bvars, kvars, nvars>>

DownloadSingleFile ==
    /\ \E outcome \in DownloadOutcomes : download_single_file(outcome)
    /\ UNCHANGED <<qvars, pvars, avars, cvars, lvars, bvars, kvars, nvars>>

NextDownload == DedupeAndSort \/ DownloadSingleFile

SpecDownload == InitDownload /\ [][NextDownload]_vars

\* the list the loop walks has every discovered file once, by target path;
\* the requests so far are its first files in order; after a failed download
\* nothing is at the path of the file requested last and the stage has
\* reported failure; the stage has reported success only with every
\* discovered file requested and written
download_state_ok ==
    /\ stage # "discovered" =>
          /\ {unique_files_to_process[i] : i \in 1..Len(unique_files_to_process)}
                = {all_files_to_process[i] : i \in 1..Len(all_files_to_process)}
          /\ NoRepeat(unique_files_to_process)
          /\ \A i, j \in 1..Len(unique_files_to_process) :
                i < j => unique_files_to_process[i].path
                            <= unique_files_to_process[j].path
    /\ IsPrefix(requested, unique_files_to_process)
    /\ failed =>
          /\ stage = "false"
          /\ disk[requested[Len(requested)].path] = "absent"
    /\ stage = "true" =>
          /\ ~failed
          /\ requested = unique_files_to_process
          /\ \A i \in 1..Len(all_files_to_process) :
                /\ all_files_to_process[i] \in written
                /\ disk[all_files_to_process[i].path] = "complete"

\* C19: the files are requested one at a time in the sorted order of the
\* de-duplicated list; when a download fails its partial file is deleted,
\* no later file is requested and the stage reports failure; the stage
\* reports success only if every discovered file was written.
C19_SequentialFailFast ==
    /\ []download_state_ok
    /\ [][/\ Len(requested') <= Len(requested) + 1
          /\ failed => requested' = requested]_vars

\* the second of three files broke off while it was written: its file is
\* gone, the third was not requested, the stage reported failure
C19_Witness ==
    /\ stage = "false" /\ failed
    /\ Len(unique_files_to_process) = 3
    /\ Len(requested) = 2
    /\ Len(all_files_to_process) > 3
    /\ requested[1] \in written
    /\ disk[requested[2].path] = "absent"

(***************************************************************************)
(* Specification SpecConvert: the worker threads and the caller's loop     *)
(* interleave in any order.                                                *)
(***************************************************************************)
WorkerStart ==
    /\ \E f \in csv_files : worker_start(f)
    /\ UNCHANGED <<qvars, pvars, avars, cvars, lvars, bvars, dvars, nvars>>

ConvertOne ==
    /\ \E f \in csv_files, ok \in BOOLEAN : convert_one(f, ok)
    /\ UNCHANGED <<qvars, pvars, avars, cvars, lvars, bvars, dvars, nvars>>

Collect ==
    /\ \E f \in csv_files : collect(f)
    /\ UNCHANGED <<qvars, pvars, avars, cvars, lvars, bvars, dvars, nvars>>

ReturnFalse ==
    /\ return_false
    /\ UNCHANGED <<qvars, pvars, avars, cvars, lvars, bvars, dvars, nvars>>

ReturnTrue ==
    /\ return_true
    /\ UNCHANGED <<qvars, pvars, avars, cvars, lvars, bvars, dvars, nvars>>

InitConvert == InitOther /\ InitAuthVars /\ InitExtra

NextConvert == WorkerStart \/ ConvertOne \/ Collect \/ ReturnFalse \/ ReturnTrue

SpecConvert == InitConvert /\ [][NextConvert]_vars

\* at most max_workers conversions run; the stage has reported success only
\* with every conversion done, and failure only with a failed conversion,
\* nothing queued and nothing running
convert_state_ok ==
    /\ Cardinality({f \in csv_files : futures[f] = "running"}) <= max_workers
    /\ \A f, g \in csv_files : out(f) = out(g) => f = g
    /\ converting = "true" => \A f \in csv_files : futures[f] = "done"
    /\ converting \in {"shutdown", "false"} =>
          /\ \E f \in csv_files : futures[f] = "failed"
          /\ \A f \in csv_files : futures[f] # "pending"
    /\ converting = "false" => \A f \in csv_files : futures[f] # "running"

\* C20: whatever order the workers finish in, once the caller has met a
\* failed conversion every conversion that had not started is cancelled and
\* none starts any more, and the stage cannot report success; each
\* conversion has an output file of its own and at most max_workers run.
C20_FailureCancelsTheRest ==
    /\ []convert_state_ok
    /\ [][converting # "collecting" =>
            /\ converting' # "true"
            /\ \A f \in csv_files :
                  /\ futures'[f] = "running" => futures[f] = "running"
                  /\ futures[f] = "cancelled" => futures'[f] = "cancelled"]_vars

\* the second shard failed while the first was still running and the third
\* had not started: the third was cancelled, the first went on to its end,
\* the stage reported failure
C20_Witness ==
    /\ converting = "false"
    /\ futures[1] = "done" /\ 1 \notin yielded
    /\ futures[2] = "failed"
    /\ futures[3] = "cancelled"

(***************************************************************************)
(* Specification SpecConfig: a config is made with some env map (which     *)
(* M3Config.__init__ copies into the process environment); then keys are   *)
(* read, maps are merged and the process environment is changed from       *)
(* outside, in any order.                                                  *)
(***************************************************************************)
InitConfig ==
    /\ InitOther
    /\ InitAuthVars
    /\ InitRateVars
    /\ InitLoadVars
    /\ InitBackendVars
    /\ InitDownloadVars
    /\ InitConvertVars
    /\ InitIngestVars
    /\ InitClientVars
    /\ env_vars \in [EnvKeys -> {None, "a"}]
    /\ environ = env_vars
    /\ cfg_op = NoConfigOp

GetEnvVar ==
    /\ \E key \in EnvKeys, default \in {None, "", "b"}, raise_if_missing \in BOOLEAN :
          LET r == get_env_var(env_vars, environ, key, default, raise_if_missing)
          IN  cfg_op' = [NoConfigOp EXCEPT !.name = "get", !.key = key,
                            !.default = default,
                            !.raise_if_missing = raise_if_missing,
                            !.raised = r.raised, !.value = r.value,
                            !.before = env_vars, !.environ = environ]
    /\ UNCHANGED <<env_vars, environ>>
    /\ UNCHANGED <<qvars, pvars, avars, uvars, wvars, xvars>>

MergeEnv ==
    /\ \E prefix \in {"", "P_"} : \E new_env \in MergeMaps(prefix) :
          LET r == merge_env(env_vars, new_env, prefix)
          IN  /\ env_vars' = r.env_vars
              /\ cfg_op' = [NoConfigOp EXCEPT !.name = "merge",
                               !.raised = r.raised, !.before = env_vars,
                               !.environ = environ, !.new_env = new_env,
                               !.prefix = prefix]
    /\ UNCHANGED environ
    /\ UNCHANGED <<qvars, pvars, avars, uvars, wvars, xvars>>

\* os.environ is written or a key is deleted from it by other code
SetEnviron ==
    /\ \E key \in EnvKeys, value \in {None, "", "b"} :
          environ' = [environ EXCEPT ![key] = value]
    /\ cfg_op' = NoConfigOp
    /\ UNCHANGED env_vars
    /\ UNCHANGED <<qvars, pvars, avars, uvars, wvars, xvars>>

NextConfig == GetEnvVar \/ MergeEnv \/ SetEnviron

SpecConfig == InitConfig /\ [][NextConfig]_vars

\* C21: get_env_var returns the value of the config's own map if the key is
\* there, whatever the process environment holds; else the value of the
\* process environment; else the caller's default; it raises exactly when
\* none of the three exists and the key is required.
C21_Precedence ==
    cfg_op.name = "get" =>
        LET k == cfg_op.key
        IN  /\ cfg_op.before[k] # None =>
                  ~cfg_op.raised /\ cfg_op.value = cfg_op.before[k]
            /\ (cfg_op.before[k] = None /\ cfg_op.environ[k] # None) =>
                  ~cfg_op.raised /\ cfg_op.value = cfg_op.environ[k]
            /\ (/\ cfg_op.before[k] = None /\ cfg_op.environ[k] = None
                /\ cfg_op.default # None) =>
                  ~cfg_op.raised /\ cfg_op.value = cfg_op.default
            /\ cfg_op.raised <=>
                  (/\ cfg_op.before[k] = None /\ cfg_op.environ[k] = None
                   /\ cfg_op.default = None /\ cfg_op.raise_if_missing)

\* a key set in the map was read while the process environment held another
\* value for it, and the map's value came back
C21_Witness ==
    /\ cfg_op.name = "get" /\ ~cfg_op.raised
    /\ cfg_op.before[cfg_op.key] = "a"
    /\ cfg_op.environ[cfg_op.key] = "b"
    /\ cfg_op.value = "a"

\* no item of the map meets a key of the config set to another value
non_conflicting(own, new_env, prefix) ==
    \A i \in 1..Len(new_env) :
        own[prefixed(prefix, new_env[i][1])] \in {None, new_env[i][2]}

\* C22: merging a map whose keys are each absent from the config or set to
\* the same value succeeds, and merging it again leaves the config as it is
\* after the first merge; a map with a key set to another value raises the
\* conflict error.
C22_MergeIdempotent ==
    cfg_op.name = "merge" =>
        IF non_conflicting(cfg_op.before, cfg_op.new_env, cfg_op.prefix)
        THEN /\ ~cfg_op.raised
             /\ \A i \in 1..Len(cfg_op.new_env) :
                   env_vars[prefixed(cfg_op.prefix, cfg_op.new_env[i][1])]
                      = cfg_op.new_env[i][2]
             /\ merge_env(env_vars, cfg_op.new_env, cfg_op.prefix)
                   = [raised |-> FALSE, env_vars |-> env_vars]
        ELSE cfg_op.raised

\* a map with one key new to the config and one key already set to the same
\* value was merged
C22_Witness ==
    /\ cfg_op.name = "merge" /\ ~cfg_op.raised
    /\ Len(cfg_op.new_env) = 2
    /\ \E i, j \in 1..2 :
          /\ cfg_op.before[cfg_op.new_env[i][1]] = None
          /\ cfg_op.before[cfg_op.new_env[j][1]] = cfg_op.new_env[j][2]

(***************************************************************************)
(* The built flag and a build() that raises (SpecPipe).                    *)
(***************************************************************************)
\* C26 (as claimed): a build() that raises, at whichever step, on a pipeline
\* that is not marked built leaves it not marked built, so that run() and
\* save() still refuse it.
C26_FailedBuildLeavesUnbuilt ==
    [][(/\ op'.name = "build" /\ op'.outcome = "M3BuildError"
        /\ ~pipes[op'.pipe].built) => ~pipes'[op'.pipe].built]_vars

(***************************************************************************)
(* The order of the key-ID check and the JWKS fetch (SpecAuth).            *)
(***************************************************************************)
\* C27 (as claimed): a token whose header has no kid is rejected with the
\* missing-key-ID error and with no JWKS request made for it, whether the
\* JWKS endpoint answers or not.
C27_NoKidRejectedBeforeFetch ==
    (last.called /\ last.token.kid = "none") =>
        /\ ~last.ok
        /\ last.err = "Token missing key ID (kid)"
        /\ ~last.fetched

(***************************************************************************)
(* What a request does to the rate-limit entries (SpecAuth).               *)
(***************************************************************************)
\* C30: the rate-limit entry of a subject changes only in a request of that
\* subject that passed every check and is admitted (the entry is then its
\* timestamps that are still in the window, followed by the time of the
\* request); a rejected request changes no entry, and a request changes no
\* entry of another subject.
C30_EntryChangesOnlyOnAdmission ==
    [][\A s \in Subjects :
          rate_limit_cache'[s] # rate_limit_cache[s] =>
              /\ last'.called /\ last'.ok /\ last'.token.sub = s
              /\ rate_limit_cache'[s] =
                    Append(SelectAfter(rate_limit_cache[s],
                                       last'.time - rate_limit_window),
                           last'.time)]_vars

\* a request of alice was rejected for the rate limit at a time when bob has
\* an entry too
C30_Witness ==
    /\ last.called /\ ~last.ok /\ last.err = "Rate limit exceeded"
    /\ last.token.sub = "alice"
    /\ Len(rate_limit_cache["alice"]) = rate_limit_requests
    /\ rate_limit_cache["bob"] # <<>>

(***************************************************************************)
(* Clean SELECT queries (SpecQuery).                                       *)
(***************************************************************************)
\* one statement of type SELECT whose text holds no deny-listed keyword, no
\* injection signature and no suspicious name
clean_select(q) ==
    /\ Len(statements(strip(q))) = 1
    /\ get_type(statements(strip(q))[1]) = "SELECT"
    /\ \A w \in dangerous_keywords \cup injection_patterns \cup suspicious_names :
          ~contains(q, w)

\* C25: every well-formed single SELECT query that holds no deny-listed write
\* keyword, no injection signature and no suspicious identifier is accepted,
\* by the tool's validator and by the server's.
C25_CleanSelectAccepted ==
    (pcq = "validated" /\ clean_select(sql_query)) =>
        /\ verdict = <<TRUE, "Safe">>
        /\ server_verdict = <<TRUE, "Safe">>

\* a clean SELECT with a sub-expression in parentheses was accepted
C25_Witness ==
    /\ pcq = "validated"
    /\ clean_select(sql_query)
    /\ sql_query = <<"SELECT", "(", "X", ")">>
    /\ verdict[1]

(***************************************************************************)
(* Specification SpecIngest: one ingest, by DataIO.initialize (download,   *)
(* then load) or by build_duckdb_from_existing_raw (raw files found, then  *)
(* conversion, then registration of the views in a new database).  Each    *)
(* stage but the registration is taken for what it reports.                *)
(***************************************************************************)
InitIngest ==
    /\ InitOther
    /\ InitAuthVars
    /\ InitRateVars
    /\ InitLoadVars
    /\ InitBackendVars
    /\ InitDownloadVars
    /\ InitConvertVars
    /\ InitConfigVars
    /\ InitIngestVars
    /\ InitClientVars

IngestStart ==
    /\ i_entry = "none"
    /\ \E entry \in {"initialize", "build"} :
          /\ i_entry' = entry
          /\ i_started' = <<stage_order(entry)[1]>>
    /\ UNCHANGED <<i_reports, i_result, parquet_files, next_view, created, views>>
    /\ UNCHANGED <<qvars, pvars, avars, uvars, gvars, xvars>>

\* a stage other than the registration returns True or False
StageReports ==
    /\ i_result = "none"
    /\ Len(i_started) = Len(i_reports) + 1
    /\ i_started[Len(i_started)] # "register"
    /\ \E ok \in BOOLEAN :
          LET r == ingest_after(i_entry, i_started, i_reports, ok)
          IN  /\ i_started' = r.started
              /\ i_reports' = r.reports
              /\ i_result' = r.result
    /\ UNCHANGED <<i_entry, parquet_files, next_view, created, views>>
    /\ UNCHANGED <<qvars, pvars, avars, uvars, gvars, xvars>>

\* _create_duckdb_with_views up to its loop: the files are listed, and with
\* no file False is returned
ListParquet ==
    /\ running("register")
    /\ next_view = 0
    /\ \E files \in ParquetLists :
          /\ parquet_files' = files
          /\ IF files = <<>>
             THEN LET r == ingest_after(i_entry, i_started, i_reports, FALSE)
                  IN  /\ i_reports' = r.reports
                      /\ i_result' = r.result
                      /\ next_view' = 0
             ELSE /\ next_view' = 1
                  /\ UNCHANGED <<i_reports, i_result>>
    /\ UNCHANGED <<i_entry, i_started, created, views>>
    /\ UNCHANGED <<qvars, pvars, avars, uvars, gvars, xvars>>

\* one pass of the loop: the view of the file is created or replaces the
\* view of that name, or the statement fails and its exception leaves the
\* ingest
CreateView ==
    /\ running("register")
    /\ next_view \in 1..Len(parquet_files)
    /\ \E ok \in BOOLEAN :
          IF ok
          THEN /\ views' = create_or_replace_view(
                              views, view_name(parquet_files[next_view]),
                              parquet_files[next_view])
               /\ created' = created + 1
               /\ next_view' = next_view + 1
               /\ UNCHANGED i_result
          ELSE /\ i_result' = "raised"
               /\ UNCHANGED <<views, created, next_view>>
    /\ UNCHANGED <<i_entry, i_started, i_reports, parquet_files>>
    /\ UNCHANGED <<qvars, pvars, avars, uvars, gvars, xvars>>

\* after the loop: commit and return True
RegisterReturns ==
    /\ running("register")
    /\ next_view = Len(parquet_files) + 1
    /\ LET r == ingest_after(i_entry, i_started, i_reports, TRUE)
       IN  /\ i_started' = r.started
           /\ i_reports' = r.reports
           /\ i_result' = r.result
    /\ UNCHANGED <<i_entry, parquet_files, next_view, created, views>>
    /\ UNCHANGED <<qvars, pvars, avars, uvars, gvars, xvars>>

NextIngest ==
    IngestStart \/ StageReports \/ ListParquet \/ CreateView \/ RegisterReturns

SpecIngest == InitIngest /\ [][NextIngest]_vars

\* the character a character of a path part becomes in the view name
folded(c) == IF c \in {"-", "."} THEN "_" ELSE IF c = "A" THEN "a" ELSE c

\* where the i-th part begins in the joined name, less one
RECURSIVE part_offset(_, _)
part_offset(names, i) ==
    IF i = 1 THEN 0 ELSE part_offset(names, i - 1) + Len(names[i - 1]) + 1

\* C24: the name of every view is determined by the file's path relative to
\* the Parquet root: its directory names and its file name without
\* ".parquet", each lower-cased and with "-" and "." turned into "_", joined
\* by "_"; hosp/admissions.parquet gets hosp_admissions.
C24_ViewNameFromPath ==
    \A v \in views :
        LET dirs == SubSeq(v.file, 1, Len(v.file) - 1)
            file_name == v.file[Len(v.file)]
            names == Append(dirs, SubSeq(file_name, 1, Len(file_name) - Len(Suffix)))
            n == Len(names)
        IN  /\ Len(v.name) = part_offset(names, n) + Len(names[n])
            /\ \A i \in 1..n :
                  /\ \A k \in 1..Len(names[i]) :
                        v.name[part_offset(names, i) + k] = folded(names[i][k])
                  /\ i > 1 => v.name[part_offset(names, i)] = "_"
            /\ v.file = <<hosp, admissions \o Suffix>> =>
                  v.name = hosp \o <<"_">> \o admissions

\* views were registered for A/a.a.parquet and for hosp/admissions.parquet
C24_Witness ==
    /\ i_result = "true"
    /\ \E v \in views :
          /\ v.file = <<<<"A">>, <<"a", ".", "a">> \o Suffix>>
          /\ v.name = <<"a", "_", "a", "_", "a">>
    /\ \E v \in views : v.file = <<hosp, admissions \o Suffix>>

\* C28: the stages of an ingest run in the order of the code, one at a time;
\* a stage after the first has started only if the stage before it reported
\* success, and the ingest returns True only if every stage has run and
\* reported success.
C28_StagesInSequence ==
    i_entry # "none" =>
        /\ IsPrefix(i_started, stage_order(i_entry))
        /\ Len(i_reports) <= Len(i_started)
        /\ Len(i_started) <= Len(i_reports) + 1
        /\ \A k \in 2..Len(i_started) : i_reports[k - 1]
        /\ i_result = "true" =>
              /\ Len(i_reports) = Len(stage_order(i_entry))
              /\ \A k \in 1..Len(i_reports) : i_reports[k]

\* the conversion failed: the registration never started and the ingest
\* returned False
C28_Witness ==
    /\ i_entry = "build"
    /\ i_started = <<"raw_files", "convert">>
    /\ i_reports = <<TRUE, FALSE>>
    /\ i_result = "false"

\* C29 (as claimed): after a registration that returned True the database
\* holds one view for each file found, reading that file, and no view name
\* stands for two files.
C29_OneViewPerFile ==
    (i_result = "true" /\ i_entry = "build") =>
        /\ Cardinality(views) = Len(parquet_files)
        /\ \A k \in 1..Len(parquet_files) :
              \E v \in views :
                  /\ v.file = parquet_files[k]
                  /\ v.name = view_name(parquet_files[k])

(***************************************************************************)
(* Specification SpecClient: the server module with the BigQuery backend   *)
(* chosen in the environment; the backend is initialised (again), the      *)
(* project of the environment or of the active dataset changes, and the    *)
(* client is asked for, in any order.                                      *)
(***************************************************************************)
InitClient ==
    /\ InitOther
    /\ InitAuthVars
    /\ InitRateVars
    /\ InitLoadVars
    /\ InitBackendVars
    /\ InitDownloadVars
    /\ InitConvertVars
    /\ InitConfigVars
    /\ InitIngestVars
    /\ bq_backend = "bigquery"
    /\ env_project \in Projects \cup {None, ""}
    /\ ds_project \in Projects \cup {None}
    /\ bq_client_cache = [client |-> NoClient, project_id |-> None]
    /\ bq_made = 0
    /\ bq_op = NoBqOp

\* _init_backend(): the backend's name is read from the environment
ServerInitBackend ==
    /\ bq_backend' = "bigquery"
    /\ bq_op' = [NoBqOp EXCEPT !.name = "init"]
    /\ UNCHANGED <<env_project, ds_project, bq_client_cache, bq_made>>
    /\ UNCHANGED <<qvars, pvars, avars, uvars, gvars, wvars>>

\* M3_PROJECT_ID or the active dataset is changed between two calls
SetProject ==
    /\ \E env \in Projects \cup {None, ""}, ds \in Projects \cup {None} :
          /\ <<env, ds>> # <<env_project, ds_project>>
          /\ env_project' = env
          /\ ds_project' = ds
    /\ UNCHANGED <<bq_backend, bq_client_cache, bq_made, bq_op>>
    /\ UNCHANGED <<qvars, pvars, avars, uvars, gvars, wvars>>

GetBqClient ==
    /\ bq_made < MaxClients
    /\ \E ok \in BOOLEAN :
          LET target == target_project_id(env_project, ds_project)
              r == get_bq_client(bq_client_cache, target, bq_made, ok)
          IN  /\ bq_client_cache' = r.cache
              /\ bq_made' = r.made
              /\ bq_op' = [name |-> "get", env |-> env_project,
                           ds |-> ds_project, target |-> target,
                           raised |-> r.raised, client |-> r.client]
    /\ UNCHANGED <<bq_backend, env_project, ds_project>>
    /\ UNCHANGED <<qvars, pvars, avars, uvars, gvars, wvars>>

NextClient == ServerInitBackend \/ SetProject \/ GetBqClient

SpecClient == InitClient /\ [][NextClient]_vars

=============================================================================
